---- MODULE Spec2Model ----
(***************************************************************************)
(* Verification model of eu_einvoice: the profile model (utils.py), the    *)
(* common-code retriever (common_codes.py) and the Sales Invoice to        *)
(* e-invoice generator (european_e_invoice/custom/sales_invoice.py).       *)
(*                                                                         *)
(* The module holds several specifications over one set of variables; each *)
(* specification drives one component and leaves the variables of the      *)
(* other components at their idle values.                                  *)
(***************************************************************************)
EXTENDS Integers, Sequences, FiniteSets, TLC

VARIABLES
    a, b, c,        \* SpecProfile: three profiles handed to the comparison operators
    g,              \* SpecProfile: a guideline string handed to get_profile
    out,            \* SpecProfile: result of the last call, NoResult before any call
    retriever,      \* SpecCodes: a CommonCodeRetriever, [code_lists, default_code]
    records,        \* SpecCodes: the candidate (doctype, name) pairs handed to get / get_code
    code_db,        \* the Code List data of the site: [codes, defaults]
    res,            \* SpecCodes: result of the last call, NoResult before any call
    profile,        \* SpecGen: EInvoiceGenerator.profile
    invoice,        \* SpecGen: the Sales Invoice handed to the generator
    site,           \* SpecGen: host records read by the generator (company, contacts, settings)
    doc,            \* SpecGen: EInvoiceGenerator.doc, the document under construction
    gen,            \* SpecGen: EInvoiceGenerator.item_tax_rates and the result of _add_taxes_and_charges
    pc,             \* SpecGen: the next step of create_einvoice
    settings,       \* SpecValidate: the E Invoice Settings single
    sinv,           \* SpecValidate: the Sales Invoice handed to validate_doc
    engine,         \* the outcome of the rule-evaluation engine for each stylesheet
    vres,           \* SpecValidate: what the last run of validate_doc did, NoResult before any
    einv,           \* SpecImport: the E Invoice Import record
    host            \* SpecImport: host records read by the import (suppliers, orders, files)

varsProfile == <<a, b, c, g, out>>
varsCodes == <<retriever, records, res>>

varsGen == <<profile, invoice, site, doc, gen, pc>>

varsValidate == <<settings, sinv, vres>>

varsImport == <<einv, host>>

vars == <<varsProfile, varsCodes, code_db, varsGen, varsValidate, engine, varsImport>>

\* Python's None
None == "None"

\* no operator has been applied yet
NoResult == [op |-> "none"]

(***************************************************************************)
(* utils.py: EInvoiceProfile                                               *)
(***************************************************************************)
BASIC == "BASIC"
EN16931 == "EN 16931"
EXTENDED == "EXTENDED"
XRECHNUNG == "XRECHNUNG"

\* the members of the enum, in declaration order
EInvoiceProfile == <<BASIC, EN16931, EXTENDED, XRECHNUNG>>

Profiles == {EInvoiceProfile[i] : i \in 1..Len(EInvoiceProfile)}

\* list.index: position of the first occurrence of x in s
index(s, x) == CHOOSE i \in 1..Len(s) : s[i] = x /\ \A j \in 1..(i - 1) : s[j] # x

order_declaration == <<BASIC, EN16931, EXTENDED, XRECHNUNG>>

\* the list `order` of EInvoiceProfile.__lt__
order == <<BASIC, EN16931, XRECHNUNG, EXTENDED>>

\* EInvoiceProfile.__lt__
lt(self, other) == index(order, self) < index(order, other)

\* functools.total_ordering derives the other three operators from __lt__
\* and the enum's identity __eq__
le(self, other) == lt(self, other) \/ self = other
gt(self, other) == ~lt(self, other) /\ self # other
ge(self, other) == ~lt(self, other)

PROFILE_TO_SCHEMA ==
    (BASIC :> "FACTUR-X_BASIC") @@ (EN16931 :> "FACTUR-X_EN16931")
    @@ (XRECHNUNG :> "FACTUR-X_EN16931") @@ (EXTENDED :> "FACTUR-X_EXTENDED")

PROFILE_TO_GUIDELINE_shared ==
    (BASIC :> "urn:cen.eu:en16931:2017#compliant#urn:factur-x.eu:1p0:basic")
    @@ (EN16931 :> "urn:cen.eu:en16931:2017")
    @@ (XRECHNUNG :> "urn:cen.eu:en16931:2017")
    @@ (EXTENDED :> "urn:cen.eu:en16931:2017#conformant#urn:factur-x.eu:1p0:extended")

PROFILE_TO_GUIDELINE ==
    (BASIC :> "urn:cen.eu:en16931:2017#compliant#urn:factur-x.eu:1p0:basic")
    @@ (EN16931 :> "urn:cen.eu:en16931:2017")
    @@ (XRECHNUNG :> "urn:cen.eu:en16931:2017#compliant#urn:xeinkauf.de:kosit:xrechnung_3.0")
    @@ (EXTENDED :> "urn:cen.eu:en16931:2017#conformant#urn:factur-x.eu:1p0:extended")

\* the keys of the PROFILE_TO_GUIDELINE literal, in insertion order
guideline_items == <<BASIC, EN16931, XRECHNUNG, EXTENDED>>

\* {v: k for k, v in PROFILE_TO_GUIDELINE.items()}: a later key overwrites
\* an earlier one that has the same guideline
GUIDELINE_TO_PROFILE ==
    [v \in {PROFILE_TO_GUIDELINE[p] : p \in DOMAIN PROFILE_TO_GUIDELINE} |->
        LET ks == {i \in 1..Len(guideline_items) : PROFILE_TO_GUIDELINE[guideline_items[i]] = v}
            last == CHOOSE i \in ks : \A j \in ks : j <= i
        IN  guideline_items[last]]

\* dict.get: None for a missing key
get_drafthorse_schema(p) ==
    IF p \in DOMAIN PROFILE_TO_SCHEMA THEN PROFILE_TO_SCHEMA[p] ELSE None

get_guideline(p) ==
    IF p \in DOMAIN PROFILE_TO_GUIDELINE THEN PROFILE_TO_GUIDELINE[p] ELSE None

get_profile(guideline) ==
    IF guideline \in DOMAIN GUIDELINE_TO_PROFILE THEN GUIDELINE_TO_PROFILE[guideline] ELSE None

(***************************************************************************)
(* SpecProfile: the profile operators applied to every choice of inputs    *)
(***************************************************************************)
\* guideline strings read from incoming documents: the known ones and one
\* that no profile declares
UnknownGuideline == "urn:factur-x.eu:1p0:minimum"

GuidelineInputs == {PROFILE_TO_GUIDELINE[p] : p \in Profiles} \cup {UnknownGuideline}

\* the variables of the validation and of the import while another
\* component runs
IdleValidate ==
    /\ settings = [validate_sales_invoice_on_save |-> 0]
    /\ sinv = [name |-> None]
    /\ engine = <<>>
    /\ vres = NoResult

IdleImport ==
    /\ einv = [name |-> None]
    /\ host = [suppliers |-> {}]

IdleCodes ==
    /\ retriever = [code_lists |-> <<>>, default_code |-> None]
    /\ records = <<>>
    /\ code_db = [codes |-> <<>>, defaults |-> <<>>]
    /\ res = NoResult

IdleGen ==
    /\ profile = BASIC
    /\ invoice = [name |-> None]
    /\ site = [company |-> None]
    /\ doc = [created |-> FALSE]
    /\ gen = [item_tax_rates |-> {}]
    /\ pc = "idle"

InitProfile ==
    /\ a \in Profiles
    /\ b \in Profiles
    /\ c \in Profiles
    /\ g \in GuidelineInputs
    /\ out = NoResult
    /\ IdleCodes
    /\ IdleGen
    /\ IdleValidate
    /\ IdleImport

\* a < b, a <= b, a > b, a >= b and the comparisons needed for transitivity
Compare ==
    /\ out = NoResult
    /\ out' = [op |-> "compare",
               lt_ab |-> lt(a, b), lt_ba |-> lt(b, a), lt_aa |-> lt(a, a),
               lt_bc |-> lt(b, c), lt_ac |-> lt(a, c),
               le_ab |-> le(a, b), gt_ab |-> gt(a, b), ge_ab |-> ge(a, b)]
    /\ UNCHANGED <<a, b, c, g, varsCodes, code_db, varsGen, varsValidate, engine, varsImport>>

\* _set_context writes get_guideline(profile) into the document and
\* read_values_from_einvoice maps the guideline it reads back to a profile
GuidelineOfProfile ==
    /\ out = NoResult
    /\ out' = [op |-> "get_guideline",
               guideline_a |-> get_guideline(a),
               guideline_b |-> get_guideline(b),
               schema_a |-> get_drafthorse_schema(a),
               profile_back |-> get_profile(get_guideline(a))]
    /\ UNCHANGED <<a, b, c, g, varsCodes, code_db, varsGen, varsValidate, engine, varsImport>>

ProfileOfGuideline ==
    /\ out = NoResult
    /\ out' = [op |-> "get_profile",
               profile |-> get_profile(g),
               guideline_back |-> get_guideline(get_profile(g))]
    /\ UNCHANGED <<a, b, c, g, varsCodes, code_db, varsGen, varsValidate, engine, varsImport>>

NextProfile == Compare \/ GuidelineOfProfile \/ ProfileOfGuideline

SpecProfile == InitProfile /\ [][NextProfile]_vars

(***************************************************************************)
(* Claims on the profile model                                             *)
(***************************************************************************)
\* position of a profile in the documented order BASIC < EN16931 < XRECHNUNG < EXTENDED
DocumentedRank ==
    (BASIC :> 1) @@ (EN16931 :> 2) @@ (XRECHNUNG :> 3) @@ (EXTENDED :> 4)

\* C1: comparison of profiles is a strict total order that agrees with
\* BASIC < EN16931 < XRECHNUNG < EXTENDED: exactly one of a<b, a=b, b<a holds,
\* < is irreflexive and transitive, and <=, > and >= follow the same order.
C1_StrictTotalOrder ==
    (out.op = "compare") =>
        /\ (out.lt_ab /\ a # b /\ ~out.lt_ba)
           \/ (~out.lt_ab /\ a = b /\ ~out.lt_ba)
           \/ (~out.lt_ab /\ a # b /\ out.lt_ba)
        /\ ~out.lt_aa
        /\ (out.lt_ab /\ out.lt_bc) => out.lt_ac
        /\ out.lt_ab <=> (DocumentedRank[a] < DocumentedRank[b])
        /\ out.le_ab <=> (DocumentedRank[a] <= DocumentedRank[b])
        /\ out.gt_ab <=> (DocumentedRank[a] > DocumentedRank[b])
        /\ out.ge_ab <=> (DocumentedRank[a] >= DocumentedRank[b])

\* XRECHNUNG and EXTENDED, the pair on which the documented order differs
\* from the declaration order, have been compared
C1_Witness ==
    /\ out.op = "compare"
    /\ a = XRECHNUNG /\ b = EXTENDED /\ c = BASIC
    /\ out.lt_ab /\ ~out.lt_ba

\* C2: get_guideline and get_drafthorse_schema are total over the profiles,
\* distinct profiles have distinct guidelines, get_profile(get_guideline(p)) = p
\* and get_guideline(get_profile(g)) = g for every known guideline g.
C2_GuidelineBijection ==
    /\ (out.op = "get_guideline") =>
        /\ out.guideline_a # None
        /\ out.schema_a # None
        /\ (a # b) => (out.guideline_a # out.guideline_b)
        /\ out.profile_back = a
    /\ (out.op = "get_profile") =>
        /\ (g # UnknownGuideline) => (out.profile \in Profiles /\ out.guideline_back = g)

\* the XRECHNUNG guideline, which extends the EN 16931 one, was mapped back
C2_Witness ==
    /\ out.op = "get_profile"
    /\ g = "urn:cen.eu:en16931:2017#compliant#urn:xeinkauf.de:kosit:xrechnung_3.0"
    /\ out.profile = XRECHNUNG

(***************************************************************************)
(* common_codes.py: CommonCodeRetriever                                    *)
(***************************************************************************)
\* Python truthiness of a string or None
truthy(v) == v # None /\ v # ""

\* Python truthiness of the local `codes` of get_code, which holds None or
\* a tuple of codes; None is represented by the empty tuple, both are falsy
truthy_codes(codes) == Len(codes) > 0

\* erpnext get_codes_for(code_list, doctype, name): the tuple of the common
\* codes that the code list holds for the record, () when it holds none
get_codes_for(db, code_list, doctype, name) ==
    IF <<code_list, doctype, name>> \in DOMAIN db.codes
    THEN db.codes[<<code_list, doctype, name>>]
    ELSE <<>>

\* erpnext get_default_code(code_list): the default common code of the
\* code list, None when it has none
get_default_code(db, code_list) ==
    IF code_list \in DOMAIN db.defaults THEN db.defaults[code_list] ELSE None

\* a lookup made by get_code: code list i, candidate j
Lookup(self, recs, i, j) ==
    [i |-> i, j |-> j, code_list |-> self.code_lists[i], doctype |-> recs[j][1], name |-> recs[j][2]]

\* the loop `for doctype, name in records` of get_code from candidate j on;
\* yields the value of `codes` when the loop ends and the lookups made
RECURSIVE records_loop(_, _, _, _, _, _, _)
records_loop(self, recs, db, i, j, codes, lookups) ==
    IF j > Len(recs) THEN [codes |-> codes, lookups |-> lookups]
    ELSE IF ~truthy(recs[j][2]) THEN records_loop(self, recs, db, i, j + 1, codes, lookups)
    ELSE LET found == get_codes_for(db, self.code_lists[i], recs[j][1], recs[j][2])
             made == Append(lookups, Lookup(self, recs, i, j))
         IN  IF truthy_codes(found) THEN [codes |-> found, lookups |-> made]
             ELSE records_loop(self, recs, db, i, j + 1, found, made)

RECURSIVE code_lists_loop_no_break(_, _, _, _, _, _)
code_lists_loop_no_break(self, recs, db, i, codes, lookups) ==
    IF i > Len(self.code_lists) THEN [codes |-> codes, lookups |-> lookups]
    ELSE LET inner == records_loop(self, recs, db, i, 1, codes, lookups)
         IN  code_lists_loop_no_break(self, recs, db, i + 1, inner.codes, inner.lookups)

\* the loop `for code_list in self.code_lists` of get_code from list i on
RECURSIVE code_lists_loop(_, _, _, _, _, _)
code_lists_loop(self, recs, db, i, codes, lookups) ==
    IF i > Len(self.code_lists) THEN [codes |-> codes, lookups |-> lookups]
    ELSE LET inner == records_loop(self, recs, db, i, 1, codes, lookups)
         IN  IF truthy_codes(inner.codes) THEN inner
             ELSE code_lists_loop(self, recs, db, i + 1, inner.codes, inner.lookups)

\* CommonCodeRetriever.get_code, with the lookups it made
get_code_traced(self, recs, db) ==
    LET scan == code_lists_loop(self, recs, db, 1, <<>>, <<>>)
    IN  [code |-> IF truthy_codes(scan.codes) THEN scan.codes[1] ELSE None,
         lookups |-> scan.lookups]

\* CommonCodeRetriever.get_code
get_code(self, recs, db) == get_code_traced(self, recs, db).code

RECURSIVE default_loop_last(_, _, _)
default_loop_last(self, db, i) ==
    IF i < 1 THEN None
    ELSE IF truthy(get_default_code(db, self.code_lists[i]))
         THEN get_default_code(db, self.code_lists[i])
         ELSE default_loop_last(self, db, i - 1)

\* the loop of CommonCodeRetriever.get_default_code from list i on
RECURSIVE default_loop(_, _, _)
default_loop(self, db, i) ==
    IF i > Len(self.code_lists) THEN None
    ELSE IF truthy(get_default_code(db, self.code_lists[i]))
         THEN get_default_code(db, self.code_lists[i])
         ELSE default_loop(self, db, i + 1)

get_default_code_from_last(self, db) == default_loop_last(self, db, Len(self.code_lists))

\* CommonCodeRetriever.get_default_code
retriever_get_default_code(self, db) == default_loop(self, db, 1)

\* Python's `x or y`
or(x, y) == IF truthy(x) THEN x ELSE y

\* CommonCodeRetriever.get
get(self, recs, db) ==
    or(or(get_code(self, recs, db), retriever_get_default_code(self, db)), self.default_code)

(***************************************************************************)
(* SpecCodes: a retriever over every small Code List database              *)
(***************************************************************************)
MaxCodeLists == 2
MaxRecords == 2

\* the code lists of uom_codes, followed by two more identifiers
CodeListIds ==
    <<"urn:xoev-de:kosit:codeliste:rec20_3", "urn:xoev-de:kosit:codeliste:rec21_3",
      "urn:xoev-de:kosit:codeliste:untdid.5305_3", "urn:xoev-de:kosit:codeliste:vatex_1">>

\* candidate pairs; one of them has an empty name
Candidates == {<<"UOM", "">>, <<"UOM", "Nos">>, <<"Item", "Nos">>}

RecordSeqs == UNION {[1..n -> Candidates] : n \in 0..MaxRecords}

CodeKeys(lists) == {<<lists[i], cand[1], cand[2]>> : i \in 1..Len(lists), cand \in Candidates}

\* the codes a code list holds for a record it knows: two codes, both
\* naming the list and the record
CodesOf(key) ==
    <<key[1] \o "|" \o key[2] \o "|" \o key[3] \o "|1", key[1] \o "|" \o key[2] \o "|" \o key[3] \o "|2">>

DefaultOf(code_list) == code_list \o "|default"

CodeDbs(lists) ==
    {[codes |-> [k \in CodeKeys(lists) |-> IF k \in known THEN CodesOf(k) ELSE <<>>],
      defaults |-> [i \in {lists[n] : n \in 1..Len(lists)} |->
                        IF i \in with_default THEN DefaultOf(i) ELSE None]] :
        known \in SUBSET CodeKeys(lists),
        with_default \in SUBSET {lists[n] : n \in 1..Len(lists)}}

IdleProfile == a = BASIC /\ b = BASIC /\ c = BASIC /\ g = UnknownGuideline /\ out = NoResult

InitCodes ==
    /\ \E n \in 1..MaxCodeLists :
        /\ retriever = [code_lists |-> SubSeq(CodeListIds, 1, n), default_code |-> "C62"]
        /\ code_db \in CodeDbs(SubSeq(CodeListIds, 1, n))
    /\ records \in RecordSeqs
    /\ res = NoResult
    /\ IdleProfile
    /\ IdleGen
    /\ IdleValidate
    /\ IdleImport

CallGetCode ==
    /\ res = NoResult
    /\ res' = [op |-> "get_code",
               code |-> get_code_traced(retriever, records, code_db).code,
               lookups |-> get_code_traced(retriever, records, code_db).lookups]
    /\ UNCHANGED <<retriever, records, code_db, varsProfile, varsGen, varsValidate, engine,
                   varsImport>>

CallGet ==
    /\ res = NoResult
    /\ res' = [op |-> "get", code |-> get(retriever, records, code_db)]
    /\ UNCHANGED <<retriever, records, code_db, varsProfile, varsGen, varsValidate, engine,
                   varsImport>>

NextCodes == CallGetCode \/ CallGet

SpecCodes == InitCodes /\ [][NextCodes]_vars

(***************************************************************************)
(* Claims on the common-code retriever                                     *)
(***************************************************************************)
\* candidate j is looked up in code list i and the code list knows it
IsHit(i, j) ==
    /\ records[j][2] # ""
    /\ code_db.codes[<<retriever.code_lists[i], records[j][1], records[j][2]>>] # <<>>

\* (i, j) comes no later than (k, l) when code lists are scanned in order
\* and the candidates inside each code list in order
NoLater(i, j, k, l) == i < k \/ (i = k /\ j <= l)

Positions == (1..Len(retriever.code_lists)) \X (1..Len(records))

FirstHits ==
    {p \in Positions : IsHit(p[1], p[2])
                       /\ \A q \in Positions : IsHit(q[1], q[2]) => NoLater(p[1], p[2], q[1], q[2])}

\* C3: get_code returns the first code of the first hit in scan order; a
\* candidate with an empty value is never looked up, the hit is the last
\* lookup made, and nothing is looked up in a later code list after a hit.
C3_FirstHitWins ==
    (res.op = "get_code") =>
        /\ \A n \in 1..Len(res.lookups) : res.lookups[n].name # ""
        /\ \A p \in FirstHits :
            /\ res.code = code_db.codes[<<retriever.code_lists[p[1]], records[p[2]][1], records[p[2]][2]>>][1]
            /\ res.lookups # <<>>
            /\ res.lookups[Len(res.lookups)].i = p[1]
            /\ res.lookups[Len(res.lookups)].j = p[2]
            /\ \A n \in 1..Len(res.lookups) :
                NoLater(res.lookups[n].i, res.lookups[n].j, p[1], p[2])
        /\ (FirstHits = {}) => res.code = None

\* the first code list misses both candidates, the second one knows the
\* second candidate after an empty one: the hit is found in the second list
C3_Witness ==
    /\ res.op = "get_code"
    /\ Len(retriever.code_lists) = 2
    /\ records = <<<<"UOM", "">>, <<"Item", "Nos">>>>
    /\ FirstHits = {<<2, 2>>}
    /\ code_db.codes[<<retriever.code_lists[1], "UOM", "">>] # <<>>
    /\ res.code = CodesOf(<<retriever.code_lists[2], "Item", "Nos">>)[1]

ListsWithDefault == {i \in 1..Len(retriever.code_lists) : code_db.defaults[retriever.code_lists[i]] # None}

\* C4: when no code list yields a hit, get returns the default code of the
\* first code list (in priority order) that has one, and the static default
\* only when no code list has a default code.
C4_DefaultFallback ==
    (res.op = "get" /\ FirstHits = {}) =>
        /\ \A i \in ListsWithDefault :
            (\A k \in ListsWithDefault : i <= k) => res.code = code_db.defaults[retriever.code_lists[i]]
        /\ (ListsWithDefault = {}) => res.code = retriever.default_code

\* code lists [L1, L2], no match, L1 without and L2 with a default: D2 is returned
C4_Witness ==
    /\ res.op = "get"
    /\ FirstHits = {}
    /\ records # <<>>
    /\ ListsWithDefault = {2}
    /\ res.code = DefaultOf(retriever.code_lists[2])

(***************************************************************************)
(* sales_invoice.py: EInvoiceGenerator                                     *)
(*                                                                         *)
(* Strings are strings, None is "None".  Numbers and dates are optional in *)
(* many places of the document: an absent number or date is NoValue and a  *)
(* present one is the one-element tuple of its value.  Amounts count       *)
(* thousandths (Scale decimals), so that 10.005 is 10005.                  *)
(***************************************************************************)
NoValue == <<>>
Value(x) == <<x>>

\* frappe getdate: today for a falsy argument, the date itself otherwise
Today == Value(20260301)
getdate(date) == IF date = NoValue THEN Today ELSE date

\* the "no object" passed for an optional Address or Contact
Missing == [exists |-> FALSE]

\* drafthorse Document(): every element is empty
EmptyContact ==
    [person_name |-> None, department_name |-> None, email |-> None,
     telephone |-> None, fax |-> None]

EmptyAddress ==
    [line_one |-> None, line_two |-> None, postcode |-> None, city_name |-> None,
     country_id |-> None]

EmptyParty ==
    [name |-> None, id |-> None, tax_registrations |-> <<>>, contact |-> EmptyContact,
     electronic_address |-> <<None, None>>, address |-> EmptyAddress]

EmptySummation ==
    [line_total |-> NoValue, allowance_total |-> NoValue, charge_total |-> NoValue,
     tax_basis_total |-> NoValue,
     tax_total_other_currency |-> <<>>, grand_total |-> NoValue,
     prepaid_total |-> NoValue, due_amount |-> NoValue]

Document ==
    [created |-> TRUE,
     context |-> [business_parameter |-> None, guideline_parameter |-> None],
     header |-> [id |-> None, type_code |-> None, issue_date_time |-> NoValue, notes |-> <<>>],
     seller |-> EmptyParty,
     buyer |-> EmptyParty,
     ship_to |-> [name |-> None, address |-> EmptyAddress],
     invoice_referenced_document |-> [issuer_assigned_id |-> None, issue_date_time |-> NoValue],
     buyer_reference |-> None,
     buyer_order |-> [issuer_assigned_id |-> None, issue_date_time |-> NoValue],
     seller_order |-> [issuer_assigned_id |-> None, issue_date_time |-> NoValue],
     additional_references |-> <<>>,
     items |-> <<>>,
     service_charge |-> <<>>,
     trade_tax |-> <<>>,
     currency_code |-> None,
     terms |-> <<>>,
     payment_means |-> [type_code |-> None, information |-> None,
                        payee_account |-> [iban |-> None, account_name |-> None],
                        payee_institution |-> [bic |-> None]],
     period |-> [start |-> NoValue, end |-> NoValue],
     delivery |-> [occurrence |-> NoValue],
     monetary_summation |-> EmptySummation]

\* frappe.db.get_value("Sales Invoice", name, "posting_date"); without a
\* name nothing is found
posting_date_of(st, name) ==
    IF name \in DOMAIN st.posting_dates THEN st.posting_dates[name] ELSE NoValue

\* frappe to_markdown(...).strip() of the terms the model uses
to_markdown_strip(html) ==
    CASE html = "<p>Payable within 30 days</p>" -> "Payable within 30 days"
      [] OTHER -> html

\* EInvoiceGenerator._set_context
set_context(d, p) ==
    [d EXCEPT !.context.business_parameter = "urn:fdc:peppol.eu:2017:poacc:billing:01:1.0",
              !.context.guideline_parameter = get_guideline(p)]

\* the branch of _set_header that sets the type code and the reference to
\* the prior invoice
set_type_code_amendment_first(d, inv, st) ==
    IF truthy(inv.amended_from)
    THEN [d EXCEPT !.header.type_code = "384",
                   !.invoice_referenced_document =
                        [issuer_assigned_id |-> inv.amended_from,
                         issue_date_time |-> posting_date_of(st, inv.amended_from)]]
    ELSE IF inv.is_return # 0
    THEN [d EXCEPT !.header.type_code = "381",
                   !.invoice_referenced_document =
                        [issuer_assigned_id |-> inv.return_against,
                         issue_date_time |-> posting_date_of(st, inv.return_against)]]
    ELSE [d EXCEPT !.header.type_code = "380"]

set_type_code(d, inv, st) ==
    IF inv.is_return # 0
    THEN [d EXCEPT !.header.type_code = "381",
                   !.invoice_referenced_document =
                        [issuer_assigned_id |-> inv.return_against,
                         issue_date_time |-> posting_date_of(st, inv.return_against)]]
    ELSE IF truthy(inv.amended_from)
    THEN [d EXCEPT !.header.type_code = "384",
                   !.invoice_referenced_document =
                        [issuer_assigned_id |-> inv.amended_from,
                         issue_date_time |-> posting_date_of(st, inv.amended_from)]]
    ELSE [d EXCEPT !.header.type_code = "380"]

\* the notes of _set_header: conditions of sale, terms of delivery
set_notes(d, inv) ==
    LET terms == IF truthy(inv.terms)
                 THEN <<[subject_code |-> "ABC", content |-> to_markdown_strip(inv.terms)]>>
                 ELSE <<>>
        \* f"{incoterm} {named_place or ''}".strip()
        delivery == IF truthy(inv.incoterm)
                    THEN <<[subject_code |-> "AAR",
                            content |-> IF truthy(inv.named_place)
                                        THEN inv.incoterm \o " " \o inv.named_place
                                        ELSE inv.incoterm]>>
                    ELSE <<>>
    IN  [d EXCEPT !.header.notes = @ \o terms \o delivery]

\* EInvoiceGenerator._set_header
set_header(d, inv, st) ==
    LET d1 == [d EXCEPT !.header.id = inv.name]
        d2 == set_type_code(d1, inv, st)
        d3 == [d2 EXCEPT !.header.issue_date_time = getdate(inv.posting_date)]
    IN  set_notes(d3, inv)

\* validate_vat_id on the stripped tax ids the model uses: the country code
\* must be two letters and the number 2 to 12 characters after removing
\* blanks; ok is FALSE where the function raises ValueError
validate_vat_id(vat_id) ==
    CASE vat_id = "DE 123456789" -> [ok |-> TRUE, value |-> "DE123456789"]
      [] vat_id = "de129273398" -> [ok |-> TRUE, value |-> "DE129273398"]
      [] vat_id = "12/345/67890" -> [ok |-> FALSE, value |-> None]
      [] OTHER -> [ok |-> FALSE, value |-> None]

\* str.strip() of the tax ids the model uses
strip(text) ==
    CASE text = " DE 123456789 " -> "DE 123456789"
      [] OTHER -> text

\* _set_seller_tax_id and _set_buyer_tax_id: the tax registration added for
\* a tax id, none for an empty tax id
tax_registration(tax_id) ==
    IF ~truthy(tax_id) THEN <<>>
    ELSE IF validate_vat_id(strip(tax_id)).ok
         THEN <<<<"VA", validate_vat_id(strip(tax_id)).value>>>>
         ELSE <<<<"FC", strip(tax_id)>>>>

\* EInvoiceGenerator._set_seller_tax_id
set_seller_tax_id(d, inv) ==
    [d EXCEPT !.seller.tax_registrations = @ \o tax_registration(inv.company_tax_id)]

set_seller_contact_ungated(d, p, st) ==
    LET contact == st.seller_contact
        d1 == IF contact.exists
              THEN [d EXCEPT !.seller.contact.person_name = contact.full_name,
                             !.seller.contact.department_name =
                                  IF truthy(contact.department) THEN contact.department ELSE @,
                             !.seller.contact.email =
                                  IF truthy(contact.email_id) THEN contact.email_id ELSE @]
              ELSE d
        seller_contact_phone ==
            IF contact.exists /\ truthy(contact.phone) THEN contact.phone ELSE st.company.phone_no
        d2 == IF truthy(seller_contact_phone)
              THEN [d1 EXCEPT !.seller.contact.telephone = seller_contact_phone]
              ELSE d1
    IN  IF truthy(st.company.fax)
        THEN [d2 EXCEPT !.seller.contact.fax = st.company.fax]
        ELSE d2

\* EInvoiceGenerator._set_seller_contact
set_seller_contact(d, p, st) ==
    LET contact == st.seller_contact
        d1 == IF contact.exists
              THEN [d EXCEPT !.seller.contact.person_name = contact.full_name,
                             !.seller.contact.department_name =
                                  IF truthy(contact.department) THEN contact.department ELSE @,
                             !.seller.contact.email =
                                  IF truthy(contact.email_id) THEN contact.email_id ELSE @]
              ELSE d
        seller_contact_phone ==
            IF contact.exists /\ truthy(contact.phone) THEN contact.phone ELSE st.company.phone_no
        d2 == IF truthy(seller_contact_phone) /\ ge(p, EN16931)
              THEN [d1 EXCEPT !.seller.contact.telephone = seller_contact_phone]
              ELSE d1
    IN  IF truthy(st.company.fax) /\ ge(p, EXTENDED)
        THEN [d2 EXCEPT !.seller.contact.fax = st.company.fax]
        ELSE d2

\* the first row of customer.supplier_numbers for the company that has a
\* supplier number, from row i on; None when there is none
RECURSIVE supplier_number_from(_, _, _)
supplier_number_from(rows, company, i) ==
    IF i > Len(rows) THEN None
    ELSE IF rows[i].company = company /\ truthy(rows[i].supplier_number)
         THEN rows[i].supplier_number
         ELSE supplier_number_from(rows, company, i + 1)

\* EInvoiceGenerator._set_seller_id
set_seller_id(d, inv, st) ==
    LET number == supplier_number_from(st.customer.supplier_numbers, inv.company, 1)
    IN  IF number # None THEN [d EXCEPT !.seller.id = number] ELSE d

\* frappe.db.get_value("Common Code", name, "common_code")
common_code_of(st, name) ==
    IF name \in DOMAIN st.common_codes THEN st.common_codes[name] ELSE None

\* EInvoiceGenerator._set_seller_electronic_address
set_seller_electronic_address(d, st) ==
    IF truthy(st.company.electronic_address_scheme) /\ truthy(st.company.electronic_address)
    THEN [d EXCEPT !.seller.electronic_address =
                        <<common_code_of(st, st.company.electronic_address_scheme),
                          st.company.electronic_address>>]
    ELSE LET electronic_address ==
                 IF st.seller_contact.exists /\ truthy(st.seller_contact.email_id)
                 THEN st.seller_contact.email_id
                 ELSE st.company.email
         IN  IF truthy(electronic_address)
             THEN [d EXCEPT !.seller.electronic_address = <<"EM", electronic_address>>]
             ELSE d

\* str.upper() of the strings the model upper-cases
upper(text) ==
    CASE text = "de" -> "DE"
      [] text = "fr" -> "FR"
      [] text = "vatex-eu-ae" -> "VATEX-EU-AE"
      [] text = "vatex-eu-o" -> "VATEX-EU-O"
      [] text = "vatex-eu-g" -> "VATEX-EU-G"
      [] text = "VATEX-EU-IC" -> "VATEX-EU-IC"
      [] OTHER -> text

\* frappe.db.get_value("Country", country, "code").upper()
country_id_of(st, country) == upper(st.countries[country])

\* the postal address written by _set_seller_address, _set_buyer_address
\* and _set_shipping_address
postal_address(st, address) ==
    [line_one |-> address.address_line1, line_two |-> address.address_line2,
     postcode |-> address.pincode, city_name |-> address.city,
     country_id |-> country_id_of(st, address.country)]

\* EInvoiceGenerator._set_seller_address
set_seller_address(d, st) ==
    IF ~st.seller_address.exists THEN d
    ELSE [d EXCEPT !.seller.address = postal_address(st, st.seller_address)]

\* EInvoiceGenerator._set_seller
set_seller(d, p, inv, st) ==
    LET d1 == [d EXCEPT !.seller.name = inv.company]
        d2 == set_seller_tax_id(d1, inv)
        d3 == IF gt(p, BASIC) THEN set_seller_contact(d2, p, st) ELSE d2
        d4 == set_seller_id(d3, inv, st)
        d5 == set_seller_electronic_address(d4, st)
    IN  set_seller_address(d5, st)

\* EInvoiceGenerator._set_buyer_address
set_buyer_address(d, st) ==
    IF ~st.buyer_address.exists THEN d
    ELSE [d EXCEPT !.buyer.address = postal_address(st, st.buyer_address)]

\* EInvoiceGenerator._set_shipping_address
set_shipping_address(d, inv, st) ==
    IF ~st.shipping_address.exists THEN d
    ELSE [d EXCEPT !.ship_to.name = or(st.shipping_address.address_title, inv.customer_name),
                   !.ship_to.address = postal_address(st, st.shipping_address)]

\* EInvoiceGenerator._set_buyer_contact
set_buyer_contact(d, p, st) ==
    LET contact == st.buyer_contact
    IN  IF ~contact.exists THEN d
        ELSE LET d1 == [d EXCEPT !.buyer.contact.person_name = contact.full_name,
                                 !.buyer.contact.department_name =
                                      IF truthy(contact.department) THEN contact.department ELSE @,
                                 !.buyer.contact.email =
                                      IF truthy(contact.email_id) THEN contact.email_id ELSE @]
             IN  IF ~ge(p, EN16931) THEN d1
                 ELSE IF truthy(contact.phone)
                      THEN [d1 EXCEPT !.buyer.contact.telephone = contact.phone]
                 ELSE IF truthy(contact.mobile_no)
                      THEN [d1 EXCEPT !.buyer.contact.telephone = contact.mobile_no]
                 ELSE d1

\* EInvoiceGenerator._set_buyer_electronic_address
set_buyer_electronic_address(d, inv, st) ==
    IF truthy(st.customer.electronic_address_scheme) /\ truthy(st.customer.electronic_address)
    THEN [d EXCEPT !.buyer.electronic_address =
                        <<common_code_of(st, st.customer.electronic_address_scheme),
                          st.customer.electronic_address>>]
    ELSE IF truthy(inv.contact_email)
    THEN [d EXCEPT !.buyer.electronic_address = <<"EM", inv.contact_email>>]
    ELSE IF st.buyer_address.exists /\ truthy(st.buyer_address.email_id)
    THEN [d EXCEPT !.buyer.electronic_address = <<"EM", st.buyer_address.email_id>>]
    ELSE d

\* EInvoiceGenerator._set_buyer_tax_id
set_buyer_tax_id(d, inv) ==
    [d EXCEPT !.buyer.tax_registrations = @ \o tax_registration(inv.tax_id)]

\* EInvoiceGenerator._set_buyer
set_buyer(d, p, inv, st) ==
    LET d1 == IF st.cust_master_name # "Customer Name"
              THEN [d EXCEPT !.buyer.id = inv.customer]
              ELSE d
        d2 == [d1 EXCEPT !.buyer.name = inv.customer_name]
        d3 == set_buyer_address(d2, st)
        d4 == set_shipping_address(d3, inv, st)
        d5 == IF gt(p, BASIC) THEN set_buyer_contact(d4, p, st) ELSE d4
        d6 == set_buyer_electronic_address(d5, inv, st)
    IN  set_buyer_tax_id(d6, inv)

\* the retrievers of sales_invoice.py
uom_codes ==
    [code_lists |-> <<"urn:xoev-de:kosit:codeliste:rec20_3", "urn:xoev-de:kosit:codeliste:rec21_3">>,
     default_code |-> "C62"]

payment_means_codes ==
    [code_lists |-> <<"urn:xoev-de:xrechnung:codeliste:untdid.4461_3">>, default_code |-> "ZZZ"]

duty_tax_fee_category_codes ==
    [code_lists |-> <<"urn:xoev-de:kosit:codeliste:untdid.5305_3">>, default_code |-> "S"]

vat_exemption_reason_codes ==
    [code_lists |-> <<"urn:xoev-de:kosit:codeliste:vatex_1">>, default_code |-> "vatex-eu-ae"]

\* the number of thousandths in one unit of the last decimal kept by a
\* rounding to `precision` decimals
unit(precision) ==
    CASE precision = 0 -> 1000
      [] precision = 1 -> 100
      [] precision = 2 -> 10
      [] OTHER -> 1

\* frappe rounded(num, precision, method) on an amount in thousandths:
\* the nearest multiple of the unit; a tie goes to the even multiple under
\* Banker's Rounding and away from zero under Commercial Rounding
rounded(num, precision, method) ==
    LET u == unit(precision)
        low == num \div u
        rest == num % u
    IN  IF 2 * rest < u THEN low * u
        ELSE IF 2 * rest > u THEN (low + 1) * u
        ELSE IF method = "Commercial Rounding"
             THEN (IF num >= 0 THEN (low + 1) * u ELSE low * u)
             ELSE (IF low % 2 = 0 THEN low * u ELSE (low + 1) * u)

\* frappe flt(s, precision) for a number s
flt(num, precision, st) == rounded(num, precision, st.rounding_method)

\* frappe html2text of the descriptions the model uses
html2text(html) ==
    CASE html = "<div><p>Oak table</p></div>" -> "Oak table"
      [] OTHER -> html

\* the item tax template rate of get_item_rate: the rate of the first row
\* of the template, from row i on, whose account is used by the invoice
RECURSIVE template_rate_from(_, _, _)
template_rate_from(template_taxes, applicable_accounts, i) ==
    IF i > Len(template_taxes) THEN NoValue
    ELSE IF template_taxes[i].tax_type \in applicable_accounts
         THEN Value(template_taxes[i].tax_rate)
         ELSE template_rate_from(template_taxes, applicable_accounts, i + 1)

\* the rows of a sequence that satisfy Test, in order
RECURSIVE select_rows(_, _, _)
select_rows(rows, Test(_), i) ==
    IF i > Len(rows) THEN <<>>
    ELSE (IF Test(rows[i]) THEN <<rows[i]>> ELSE <<>>) \o select_rows(rows, Test, i + 1)

\* get_item_rate(item_tax_template, taxes)
get_item_rate(item_tax_template, taxes, st) ==
    LET applicable_accounts ==
            {taxes[i].account_head : i \in {n \in 1..Len(taxes) : truthy(taxes[n].account_head)}}
        from_template ==
            IF truthy(item_tax_template)
            THEN template_rate_from(st.item_tax_templates[item_tax_template], applicable_accounts, 1)
            ELSE NoValue
        IsOnNetTotal(row) == row.charge_type = "On Net Total"
        tax_rates == select_rows(taxes, IsOnNetTotal, 1)
    IN  IF from_template # NoValue THEN from_template
        ELSE IF Len(tax_rates) = 1 THEN Value(tax_rates[1].rate) ELSE NoValue

multiplier_negative_rate(item) == IF item.net_rate < 0 THEN -1 ELSE 1

\* the sign flip of _add_line_item
multiplier(item) == IF item.net_rate < 0 /\ item.qty > 0 THEN -1 ELSE 1

zero_rated_without_z == {"AE", "E", "G", "K"}

\* the categories of _add_line_item whose rate is forced to 0
zero_rated == {"AE", "E", "G", "K", "Z"}

\* the candidates _add_line_item hands to the category and exemption
\* reason retrievers
line_candidates(inv, item) ==
    <<<<"Item Tax Template", item.item_tax_template>>,
      <<"Account", item.income_account>>,
      <<"Tax Category", inv.tax_category>>,
      <<"Sales Taxes and Charges Template", inv.taxes_and_charges>>>>

\* frappe.db.get_value("Delivery Note", name, "posting_date")
delivery_note_date(st, name) ==
    IF name \in DOMAIN st.delivery_notes THEN st.delivery_notes[name] ELSE NoValue

\* the line that _add_line_item adds to doc.trade.items
line_item(p, inv, st, db, item) ==
    LET category == get(duty_tax_fee_category_codes, line_candidates(inv, item), db)
        rate == IF category \in zero_rated
                THEN Value(0)
                ELSE get_item_rate(item.item_tax_template, inv.taxes, st)
    IN  [line_id |-> ToString(item.idx),
         name |-> item.item_name,
         seller_assigned_id |-> IF gt(p, BASIC) THEN item.item_code ELSE None,
         buyer_assigned_id |-> IF gt(p, BASIC) THEN item.customer_item_code ELSE None,
         description |-> IF gt(p, BASIC) THEN html2text(item.description) ELSE None,
         net_amount |-> Value(flt(item.net_rate, st.precision.net_rate, st) * multiplier(item)),
         billed_quantity |-> <<flt(item.qty, st.precision.qty, st) * multiplier(item),
                               get(uom_codes, <<<<"UOM", item.uom>>>>, db)>>,
         delivery_note |->
            IF truthy(item.delivery_note) /\ ge(p, EXTENDED)
            THEN [issuer_assigned_id |-> item.delivery_note,
                  issue_date_time |-> getdate(delivery_note_date(st, item.delivery_note))]
            ELSE [issuer_assigned_id |-> None, issue_date_time |-> NoValue],
         type_code |-> "VAT",
         category_code |-> category,
         rate_applicable_percent |-> rate,
         exemption_reason_code |->
            IF rate = Value(0)
            THEN upper(get(vat_exemption_reason_codes, line_candidates(inv, item), db))
            ELSE None,
         total_amount |-> Value(flt(item.net_amount, st.precision.net_amount, st))]

\* EInvoiceGenerator._add_line_item: the document and the generator's
\* delivery_dates and item_tax_rates after the call
add_line_item(d, gn, p, inv, st, db, item) ==
    LET li == line_item(p, inv, st, db, item)
    IN  [doc |-> [d EXCEPT !.items = Append(@, li)],
         gen |-> [gn EXCEPT
                    !.delivery_dates =
                        IF truthy(item.delivery_note)
                        THEN Append(@, delivery_note_date(st, item.delivery_note))
                        ELSE @,
                    !.item_tax_rates =
                        IF li.category_code \in zero_rated THEN @
                        ELSE @ \cup {li.rate_applicable_percent}]]

\* the candidates _add_taxes_and_charges hands to the category retriever
\* for a tax row booked on `account_head`
tax_candidates(inv, account_head) ==
    <<<<"Account", account_head>>,
      <<"Tax Category", inv.tax_category>>,
      <<"Sales Taxes and Charges Template", inv.taxes_and_charges>>>>

\* the candidates of _add_empty_tax
empty_tax_candidates(inv) ==
    <<<<"Tax Category", inv.tax_category>>,
      <<"Sales Taxes and Charges Template", inv.taxes_and_charges>>>>

\* frappe.db.get_value("Account", account_head, "tax_rate"), falsy as 0
account_tax_rate(st, account_head) ==
    IF account_head \in DOMAIN st.account_tax_rates THEN st.account_tax_rates[account_head] ELSE 0

\* Python round(num / den * 100, 2) on amounts in thousandths: the multiple
\* of a hundredth nearest to the quotient, a tie going to the even multiple
round_quotient(num, den) ==
    LET n == IF den < 0 THEN -(num * 100) ELSE num * 100
        m == (IF den < 0 THEN -den ELSE den) * 10
        low == n \div m
        rest == n % m
    IN  IF 2 * rest < m THEN low * 10
        ELSE IF 2 * rest > m THEN (low + 1) * 10
        ELSE IF low % 2 = 0 THEN low * 10 ELSE (low + 1) * 10

\* self.invoice.taxes[i - 1] for the row at position i (counted from 1):
\* Python's index -1 of the first row is the last row
previous_row(taxes, i) == IF i = 1 THEN taxes[Len(taxes)] ELSE taxes[i - 1]

PreviousRowTypes == {"On Previous Row Amount", "On Previous Row Total"}

service_charge_of_any_next_row(inv, db, i) ==
    LET tax == inv.taxes[i]
        has_vat_line == Len(inv.taxes) > i
    IN  [description |-> tax.description,
         applied_amount |-> Value(tax.tax_amount),
         trade_tax |->
            IF has_vat_line
            THEN <<[type_code |-> "VAT",
                    rate_applicable_percent |-> Value(inv.taxes[i + 1].rate),
                    category_code |-> get(duty_tax_fee_category_codes,
                                          tax_candidates(inv, inv.taxes[i + 1].account_head), db)]>>
            ELSE <<>>]

\* the service charge emitted for an Actual row at position i
service_charge_of(inv, db, i) ==
    LET tax == inv.taxes[i]
        has_vat_line == Len(inv.taxes) > i /\ inv.taxes[i + 1].charge_type \in PreviousRowTypes
    IN  [description |-> tax.description,
         applied_amount |-> Value(tax.tax_amount),
         trade_tax |->
            IF has_vat_line
            THEN <<[type_code |-> "VAT",
                    rate_applicable_percent |-> Value(inv.taxes[i + 1].rate),
                    category_code |-> get(duty_tax_fee_category_codes,
                                          tax_candidates(inv, inv.taxes[i + 1].account_head), db)]>>
            ELSE <<>>]

\* `tax.rate or frappe.db.get_value("Account", tax.account_head, "tax_rate") or 0`
row_tax_rate(st, tax) ==
    IF tax.rate # 0 THEN tax.rate ELSE account_tax_rate(st, tax.account_head)

\* the On Net Total row at position i takes its rate from the line items:
\* it is the only tax row, its own rate is 0 and the lines share one rate
takes_item_rate(inv, st, rates, i) ==
    Len(inv.taxes) = 1 /\ Cardinality(rates) = 1 /\ row_tax_rate(st, inv.taxes[i]) = 0

net_total_tax_of_computed_basis(inv, st, db, rates, i) ==
    LET tax == inv.taxes[i]
        tax_rate == row_tax_rate(st, tax)
    IN  [calculated_amount |-> Value(tax.tax_amount),
         type_code |-> "VAT",
         category_code |-> get(duty_tax_fee_category_codes,
                               tax_candidates(inv, tax.account_head), db),
         rate_applicable_percent |->
            IF takes_item_rate(inv, st, rates, i)
            THEN (CHOOSE r \in rates : TRUE)
            ELSE Value(tax_rate),
         basis_amount |->
            IF Len(inv.taxes) = 1 THEN Value(inv.net_total)
            ELSE IF tax.tax_amount # 0 /\ tax_rate # 0
                 THEN Value(round_quotient(tax.tax_amount, tax_rate))
            ELSE Value(0),
         exemption_reason_code |-> None]

\* the trade tax emitted for an On Net Total row at position i, given the
\* generator's item_tax_rates
net_total_tax_of(inv, st, db, rates, i) ==
    LET tax == inv.taxes[i]
        tax_rate == row_tax_rate(st, tax)
    IN  [calculated_amount |-> Value(tax.tax_amount),
         type_code |-> "VAT",
         category_code |-> get(duty_tax_fee_category_codes,
                               tax_candidates(inv, tax.account_head), db),
         rate_applicable_percent |->
            IF takes_item_rate(inv, st, rates, i)
            THEN (CHOOSE r \in rates : TRUE)
            ELSE Value(tax_rate),
         basis_amount |->
            IF Len(inv.taxes) = 1 THEN Value(inv.net_total)
            ELSE IF st.tax_row_fields = "net_amount" THEN Value(tax.net_amount)
            ELSE IF st.tax_row_fields = "custom_net_amount" THEN Value(tax.custom_net_amount)
            ELSE IF tax.tax_amount # 0 /\ tax_rate # 0
                 THEN Value(round_quotient(tax.tax_amount, tax_rate))
            ELSE Value(0),
         exemption_reason_code |-> None]

\* the trade tax emitted for an On Previous Row Amount / Total row at i
previous_row_tax_of(inv, db, i) ==
    LET tax == inv.taxes[i]
        prev == previous_row(inv.taxes, i)
    IN  [calculated_amount |-> Value(tax.tax_amount),
         type_code |-> IF prev.charge_type = "Actual" THEN "VAT" ELSE "SUR",
         category_code |-> get(duty_tax_fee_category_codes,
                               tax_candidates(inv, tax.account_head), db),
         rate_applicable_percent |-> Value(tax.rate),
         basis_amount |->
            IF tax.charge_type = "On Previous Row Amount"
            THEN Value(prev.tax_amount)
            ELSE Value(prev.total),
         exemption_reason_code |-> None]

\* the loop of EInvoiceGenerator._add_taxes_and_charges from row i on:
\* the document, tax_added and item_tax_rates when the loop ends
RECURSIVE taxes_loop(_, _, _, _, _, _, _, _)
taxes_loop(d, tax_added, rates, p, inv, st, db, i) ==
    IF i > Len(inv.taxes) THEN [doc |-> d, tax_added |-> tax_added, item_tax_rates |-> rates]
    ELSE LET tax == inv.taxes[i]
         IN  IF tax.charge_type = "Actual" /\ ge(p, EXTENDED)
             THEN taxes_loop([d EXCEPT !.service_charge = Append(@, service_charge_of(inv, db, i))],
                             tax_added, rates, p, inv, st, db, i + 1)
             ELSE IF tax.charge_type = "On Net Total"
             THEN taxes_loop([d EXCEPT !.trade_tax =
                                            Append(@, net_total_tax_of(inv, st, db, rates, i))],
                             TRUE,
                             \* item_tax_rates.pop() empties the one-element set
                             IF takes_item_rate(inv, st, rates, i) THEN {} ELSE rates,
                             p, inv, st, db, i + 1)
             ELSE IF tax.charge_type \in PreviousRowTypes
             THEN taxes_loop([d EXCEPT !.trade_tax = Append(@, previous_row_tax_of(inv, db, i))],
                             TRUE, rates, p, inv, st, db, i + 1)
             ELSE taxes_loop(d, tax_added, rates, p, inv, st, db, i + 1)

\* EInvoiceGenerator._add_taxes_and_charges
add_taxes_and_charges(d, gn, p, inv, st, db) ==
    LET after == taxes_loop(d, FALSE, gn.item_tax_rates, p, inv, st, db, 1)
    IN  [doc |-> after.doc,
         gen |-> [gn EXCEPT !.tax_added = after.tax_added,
                            !.item_tax_rates = after.item_tax_rates]]

\* EInvoiceGenerator._add_empty_tax
add_empty_tax(d, inv, db) ==
    [d EXCEPT !.trade_tax = Append(@,
        [calculated_amount |-> Value(0),
         type_code |-> "VAT",
         category_code |-> get(duty_tax_fee_category_codes, empty_tax_candidates(inv), db),
         rate_applicable_percent |-> Value(0),
         basis_amount |-> Value(inv.net_total),
         exemption_reason_code |->
            upper(get(vat_exemption_reason_codes, empty_tax_candidates(inv), db))])]

empty_tax_without_rows(d, gn, inv, db) ==
    IF Len(inv.taxes) = 0 THEN add_empty_tax(d, inv, db) ELSE d

\* create_einvoice: `if not tax_added: self._add_empty_tax()`
empty_tax_if_none_added(d, gn, inv, db) ==
    IF ~gn.tax_added THEN add_empty_tax(d, inv, db) ELSE d

\* sum(tax.tax_amount for tax in taxes if Test(tax)) from row i on
RECURSIVE sum_tax_amount(_, _, _)
sum_tax_amount(taxes, Test(_), i) ==
    IF i > Len(taxes) THEN 0
    ELSE (IF Test(taxes[i]) THEN taxes[i].tax_amount ELSE 0) + sum_tax_amount(taxes, Test, i + 1)

is_actual(tax) == tax.charge_type = "Actual"
is_not_actual(tax) == tax.charge_type # "Actual"

set_totals_charges_after_rounding(d, inv, st) ==
    LET actual_charge_total == sum_tax_amount(inv.taxes, is_actual, 1)
        tax_total == sum_tax_amount(inv.taxes, is_not_actual, 1)
    IN  [d EXCEPT
            !.monetary_summation.line_total = Value(flt(inv.net_total, 2, st)),
            !.monetary_summation.charge_total =
                IF actual_charge_total # 0 THEN Value(flt(actual_charge_total, 2, st)) ELSE @,
            !.monetary_summation.tax_basis_total =
                Value(flt(inv.net_total, 2, st) + actual_charge_total),
            !.monetary_summation.tax_total_other_currency =
                Append(@, <<flt(tax_total, 2, st), inv.currency>>),
            !.monetary_summation.grand_total = Value(flt(inv.grand_total, 2, st)),
            !.monetary_summation.prepaid_total =
                IF inv.outstanding_amount = 0
                THEN Value(flt(inv.grand_total, 2, st))
                ELSE Value(flt(inv.total_advance, 2, st)),
            !.monetary_summation.due_amount = Value(flt(inv.outstanding_amount, 2, st))]

\* EInvoiceGenerator._set_totals
set_totals(d, inv, st) ==
    LET actual_charge_total == sum_tax_amount(inv.taxes, is_actual, 1)
        tax_total == sum_tax_amount(inv.taxes, is_not_actual, 1)
    IN  [d EXCEPT
            !.monetary_summation.line_total = Value(flt(inv.net_total, 2, st)),
            !.monetary_summation.charge_total =
                IF actual_charge_total # 0 THEN Value(flt(actual_charge_total, 2, st)) ELSE @,
            !.monetary_summation.tax_basis_total =
                Value(flt(inv.net_total + actual_charge_total, 2, st)),
            !.monetary_summation.tax_total_other_currency =
                Append(@, <<flt(tax_total, 2, st), inv.currency>>),
            !.monetary_summation.grand_total = Value(flt(inv.grand_total, 2, st)),
            !.monetary_summation.prepaid_total =
                IF inv.outstanding_amount = 0
                THEN Value(flt(inv.grand_total, 2, st))
                ELSE Value(flt(inv.total_advance, 2, st)),
            !.monetary_summation.due_amount = Value(flt(inv.outstanding_amount, 2, st))]

(***************************************************************************)
(* sales_invoice.py: payment means, delivery date and payment terms        *)
(***************************************************************************)
\* the number of days from 2000-01-01 to the date written as yyyymmdd
day_number(date) ==
    LET y == date \div 10000
        m == (date \div 100) % 100
        dd == date % 100
        leap == (y % 4 = 0 /\ y % 100 # 0) \/ y % 400 = 0
        before == <<0, 31, 59, 90, 120, 151, 181, 212, 243, 273, 304, 334>>
        years == y - 2000
        \* the leap days of the years 2000..y-1
        leap_days == IF years <= 0 THEN 0
                     ELSE ((years - 1) \div 4) - ((years - 1) \div 100)
                          + ((years - 1) \div 400) + 1
    IN  365 * years + leap_days + before[m] + (IF leap /\ m > 2 THEN 1 ELSE 0) + dd - 1

\* frappe.utils.date_diff of two calendar dates
calendar_date_diff(d2, d1) == day_number(d2[1]) - day_number(d1[1])

\* f"{x:.2f}" of an amount with at most two decimals
format_2f(x) ==
    LET hundredths == (IF x < 0 THEN -x ELSE x) \div 10
        cents == hundredths % 100
    IN  (IF x < 0 THEN "-" ELSE "") \o ToString(hundredths \div 100) \o "."
        \o (IF cents < 10 THEN "0" ELSE "") \o ToString(cents)

\* get_skonto_line(days, percent, basis_amount); no basis amount is NoValue
get_skonto_line(days, percent, basis_amount) ==
    "#SKONTO#TAGE=" \o ToString(days) \o "#PROZENT=" \o format_2f(percent[1]) \o "#"
    \o (IF basis_amount # NoValue /\ basis_amount # Value(0)
        THEN "BASISBETRAG=" \o format_2f(basis_amount[1]) \o "#" ELSE "")

\* ps_description.replace("#", "//") of the descriptions the model uses
replace_hash(text) ==
    CASE text = "Order #12" -> "Order //12"
      [] OTHER -> text

\* Python round(x, 2) of an amount in thousandths
round_2(x) == rounded(x, 2, "Banker's Rounding")

NoDiscountTerms ==
    [basis_date_time |-> NoValue, basis_amount |-> NoValue, calculation_percent |-> NoValue,
     actual_amount |-> NoValue]

payment_terms_of_token_always(p, inv, ps) ==
    LET has_discount == ps.discount # 0 /\ ps.discount_date # NoValue
        own == IF truthy(ps.description) THEN ps.description ELSE ""
        discount_days == calendar_date_diff(ps.discount_date, inv.posting_date)
        basis_amount == IF round_2(ps.payment_amount) # round_2(inv.outstanding_amount)
                        THEN Value(ps.payment_amount) ELSE NoValue
        text == IF has_discount /\ p = XRECHNUNG
                THEN IF ps.discount_type = "Percentage"
                     THEN (IF replace_hash(own) # "" THEN replace_hash(own) \o "\n" ELSE "")
                          \o get_skonto_line(discount_days, Value(ps.discount), basis_amount)
                          \o "\n"
                     ELSE replace_hash(own)
                ELSE own
    IN  [due |-> IF ps.due_date # NoValue THEN getdate(ps.due_date) ELSE NoValue,
         partial_amount |->
            IF Len(inv.payment_schedule) > 1
            THEN <<[is_tuple |-> TRUE, amount |-> ps.payment_amount, currency |-> None]>>
            ELSE <<>>,
         discount_terms |->
            IF has_discount /\ p = EXTENDED
            THEN [basis_date_time |-> getdate(ps.discount_date),
                  basis_amount |-> Value(ps.payment_amount),
                  calculation_percent |->
                     IF ps.discount_type = "Percentage" THEN Value(ps.discount) ELSE NoValue,
                  actual_amount |->
                     IF ps.discount_type = "Amount" THEN Value(ps.discount) ELSE NoValue]
            ELSE NoDiscountTerms,
         description |-> IF text # "" THEN text ELSE None]

\* the PaymentTerms that _add_payment_terms adds for the schedule row ps
payment_terms_of(p, inv, ps) ==
    LET has_discount == ps.discount # 0 /\ ps.discount_date # NoValue
        own == IF truthy(ps.description) THEN ps.description ELSE ""
        discount_days == calendar_date_diff(ps.discount_date, inv.posting_date)
        basis_amount == IF round_2(ps.payment_amount) # round_2(inv.outstanding_amount)
                        THEN Value(ps.payment_amount) ELSE NoValue
        text == IF has_discount /\ p = XRECHNUNG
                THEN IF ps.discount_type = "Percentage" /\ discount_days < 0
                     THEN (IF replace_hash(own) # "" THEN replace_hash(own) \o "\n" ELSE "")
                          \o get_skonto_line(discount_days, Value(ps.discount), basis_amount)
                          \o "\n"
                     ELSE replace_hash(own)
                ELSE own
    IN  [due |-> IF ps.due_date # NoValue THEN getdate(ps.due_date) ELSE NoValue,
         partial_amount |->
            IF Len(inv.payment_schedule) > 1
            THEN <<[is_tuple |-> TRUE, amount |-> ps.payment_amount, currency |-> None]>>
            ELSE <<>>,
         discount_terms |->
            IF has_discount /\ p = EXTENDED
            THEN [basis_date_time |-> getdate(ps.discount_date),
                  basis_amount |-> Value(ps.payment_amount),
                  calculation_percent |->
                     IF ps.discount_type = "Percentage" THEN Value(ps.discount) ELSE NoValue,
                  actual_amount |->
                     IF ps.discount_type = "Amount" THEN Value(ps.discount) ELSE NoValue]
            ELSE NoDiscountTerms,
         description |-> IF text # "" THEN text ELSE None]

\* EInvoiceGenerator._add_payment_terms
add_payment_terms(d, p, inv) ==
    [d EXCEPT !.terms =
        @ \o [i \in 1..Len(inv.payment_schedule) |->
                 payment_terms_of(p, inv, inv.payment_schedule[i])]]

\* get_bank_details(mode_of_payment, company): (iban, bic)
get_bank_details(st, mode_of_payment, company) ==
    LET empty_tuple == <<None, None>>
        key == <<mode_of_payment, company>>
        account == IF key \in DOMAIN st.mode_of_payment_accounts
                   THEN st.mode_of_payment_accounts[key] ELSE None
        found == {acc \in st.bank_accounts :
                    acc.account = account /\ acc.company = company
                    /\ acc.is_company_account = 1 /\ acc.disabled = 0}
        bank_account == CHOOSE acc \in found : TRUE
    IN  IF mode_of_payment \notin DOMAIN st.mode_of_payment_types
           \/ st.mode_of_payment_types[mode_of_payment] # "Bank"
        THEN empty_tuple
        ELSE IF ~truthy(account) THEN empty_tuple
        ELSE IF found = {} THEN empty_tuple
        ELSE IF ~truthy(bank_account.iban) THEN empty_tuple
        ELSE <<bank_account.iban,
               IF truthy(bank_account.bank) /\ bank_account.bank \in DOMAIN st.banks
               THEN or(st.banks[bank_account.bank], None) ELSE None>>

\* the candidates _add_payment_means hands to the payment means retriever
payment_means_candidates(inv) ==
    <<<<"Payment Terms Template", inv.payment_terms_template>>>>
    \o [i \in 1..Len(inv.payment_schedule) |->
           <<"Mode of Payment", inv.payment_schedule[i].mode_of_payment>>]

\* the orders in which a Python set of strings can be iterated
iteration_orders(set) ==
    {seq \in [1..Cardinality(set) -> set] :
        \A i, j \in 1..Cardinality(set) : i # j => seq[i] # seq[j]}

\* the loop of _add_payment_means over the modes in the order `modes`, from
\* position i on
RECURSIVE bank_details_loop(_, _, _, _, _, _)
bank_details_loop(d, p, inv, st, modes, i) ==
    IF i > Len(modes) THEN d
    ELSE LET details == get_bank_details(st, modes[i], inv.company)
         IN  IF ~truthy(details[1])
             THEN bank_details_loop(d, p, inv, st, modes, i + 1)
             ELSE [d EXCEPT
                     !.payment_means.payee_account.iban = details[1],
                     !.payment_means.payee_account.account_name =
                         IF ge(p, EN16931) THEN inv.company ELSE @,
                     !.payment_means.payee_institution.bic =
                         IF ge(p, EN16931) THEN details[2] ELSE @]

\* EInvoiceGenerator._add_payment_means; `modes` is the order in which the
\* set modes_of_payment is iterated
add_payment_means(d, p, inv, st, db, modes) ==
    bank_details_loop(
        [d EXCEPT !.payment_means.type_code =
                     get(payment_means_codes, payment_means_candidates(inv), db)],
        p, inv, st, modes, 1)

\* the modes of payment of the schedule rows that have one
schedule_modes(inv) ==
    {inv.payment_schedule[i].mode_of_payment :
        i \in {n \in 1..Len(inv.payment_schedule) :
                  truthy(inv.payment_schedule[n].mode_of_payment)}}

\* sorted(self.delivery_dates)[-1]
RECURSIVE latest(_)
latest(dates) ==
    IF Len(dates) = 1 THEN dates[1]
    ELSE LET rest == latest(Tail(dates))
         IN  IF rest[1] > dates[1][1] THEN rest ELSE dates[1]

\* create_einvoice: the billing period, and EInvoiceGenerator._add_delivery_date
add_period_and_delivery_date(d, gn, inv) ==
    [d EXCEPT
        !.period.start = IF inv.from_date # NoValue THEN getdate(inv.from_date) ELSE @,
        !.period.end = IF inv.to_date # NoValue THEN getdate(inv.to_date) ELSE @,
        !.delivery.occurrence =
            getdate(IF gn.delivery_dates # <<>> THEN latest(gn.delivery_dates)
                    ELSE IF inv.to_date # NoValue THEN inv.to_date
                    ELSE inv.posting_date)]

\* os.path.basename of the file urls the model uses
basename(file_url) ==
    CASE file_url = "/private/files/timesheet.pdf" -> "timesheet.pdf"
      [] file_url = "https://files.example.com/timesheet.pdf" -> "timesheet.pdf"
      [] OTHER -> file_url

\* mimetypes.guess_type(url)[0] of the file urls the model uses
guess_type(file_url) ==
    CASE file_url = "/private/files/timesheet.pdf" -> "application/pdf"
      [] file_url = "https://files.example.com/timesheet.pdf" -> "application/pdf"
      [] OTHER -> None

\* as_base_64 of the file contents the model uses
as_base_64(content) ==
    CASE content = "%PDF-1.7" -> "JVBERi0xLjc="
      [] OTHER -> content

\* EInvoiceGenerator._embed_attachment
embed_attachment(d, inv, st) ==
    IF ~truthy(inv.einvoice_embedded_document) THEN d
    ELSE LET file == st.files[inv.einvoice_embedded_document]
             ref_doc ==
                 [issuer_assigned_id |-> file.name,
                  uri_id |-> IF file.is_remote_file THEN file.file_url ELSE None,
                  attached_object |->
                      IF file.is_remote_file THEN <<>>
                      ELSE <<guess_type(file.file_url), basename(file.file_url),
                             as_base_64(file.content)>>,
                  type_code |-> "916"]
         IN  [d EXCEPT !.additional_references = Append(@, ref_doc)]

\* create_einvoice: the buyer reference and the buyer order
set_buyer_order(d, p, inv) ==
    LET referenced ==
            IF truthy(inv.buyer_reference)
            THEN [d EXCEPT !.buyer_reference = inv.buyer_reference]
            ELSE d
    IN  IF truthy(inv.po_no)
        THEN [referenced EXCEPT
                !.buyer_order.issuer_assigned_id = inv.po_no,
                !.buyer_order.issue_date_time =
                    IF inv.po_date # NoValue /\ ge(p, EXTENDED)
                    THEN getdate(inv.po_date) ELSE @]
        ELSE referenced

\* create_einvoice: `if self.profile >= EInvoiceProfile.EN16931: self._embed_attachment()`
embed_attachment_if_allowed(d, p, inv, st) ==
    IF ge(p, EN16931) THEN embed_attachment(d, inv, st) ELSE d

\* create_einvoice: the set `sales_orders` after the loop over the items
sales_orders_of(inv) ==
    {inv.items[i].sales_order : i \in {n \in 1..Len(inv.items) : truthy(inv.items[n].sales_order)}}

\* frappe.db.get_value("Sales Order", so_name, "transaction_date")
transaction_date_of(st, so_name) ==
    IF so_name \in DOMAIN st.sales_orders THEN st.sales_orders[so_name] ELSE NoValue

set_seller_order_from_en16931(d, p, inv, st) ==
    LET sales_orders == sales_orders_of(inv)
    IN  IF Cardinality(sales_orders) = 1 /\ ge(p, EN16931)
        THEN LET so_name == CHOOSE so \in sales_orders : TRUE
             IN  [d EXCEPT !.seller_order.issuer_assigned_id = so_name,
                           !.seller_order.issue_date_time = transaction_date_of(st, so_name)]
        ELSE d

\* create_einvoice: the seller order, after the loop over the items
set_seller_order(d, p, inv, st) ==
    LET sales_orders == sales_orders_of(inv)
    IN  IF Cardinality(sales_orders) = 1 /\ ge(p, EXTENDED)
        THEN LET so_name == CHOOSE so \in sales_orders : TRUE
             IN  [d EXCEPT !.seller_order.issuer_assigned_id = so_name,
                           !.seller_order.issue_date_time = transaction_date_of(st, so_name)]
        ELSE d


(***************************************************************************)
(* SpecGen: create_einvoice run step by step.  The initial states are the  *)
(* generator after __init__ for a family of invoices: one family varies    *)
(* the header and the parties, one the line items, one the tax rows and    *)
(* totals; the fields a family does not vary keep the values of            *)
(* BaseInvoice and BaseSite.                                               *)
(***************************************************************************)
MaxItems == 2
MaxTaxes == 2

BaseItem ==
    [idx |-> 1, item_name |-> "Oak table", item_code |-> "TABLE-OAK",
     customer_item_code |-> None, description |-> "<div><p>Oak table</p></div>",
     net_rate |-> 10000, qty |-> 5000, uom |-> "Nos", delivery_note |-> None,
     item_tax_template |-> None, income_account |-> "Sales - EG",
     net_amount |-> 50000, sales_order |-> None]

BaseInvoice ==
    [name |-> "SINV-2026-0003", is_return |-> 0, return_against |-> None,
     amended_from |-> None, posting_date |-> Value(20260115),
     terms |-> "<p>Payable within 30 days</p>", incoterm |-> "DAP", named_place |-> None,
     company |-> "Example GmbH", company_tax_id |-> " DE 123456789 ",
     customer |-> "CUST-0001", customer_name |-> "Buyer AG", contact_email |-> None,
     tax_id |-> "12/345/67890", tax_category |-> "Export", taxes_and_charges |-> None,
     currency |-> "EUR", items |-> <<BaseItem>>, taxes |-> <<>>,
     net_total |-> 50000, grand_total |-> 50000, outstanding_amount |-> 50000,
     total_advance |-> 0, buyer_reference |-> None, po_no |-> None, po_date |-> NoValue,
     einvoice_embedded_document |-> None, payment_terms_template |-> None,
     payment_schedule |-> <<>>, from_date |-> NoValue, to_date |-> NoValue]

BaseAddress ==
    [exists |-> TRUE, address_title |-> None, address_line1 |-> "Hauptstr. 1",
     address_line2 |-> None, pincode |-> "10115", city |-> "Berlin", country |-> "Germany",
     email_id |-> "office@buyer.example"]

BaseSite ==
    [company |-> [phone_no |-> None, fax |-> None, email |-> "info@example.com",
                  electronic_address_scheme |-> None, electronic_address |-> None],
     customer |-> [supplier_numbers |-> <<[company |-> "Other GmbH", supplier_number |-> "7"],
                                          [company |-> "Example GmbH", supplier_number |-> "4711"]>>,
                   electronic_address_scheme |-> "Leitweg-ID",
                   electronic_address |-> "04011000-1234512345-06"],
     seller_address |-> BaseAddress,
     buyer_address |-> BaseAddress,
     shipping_address |-> Missing,
     seller_contact |-> Missing,
     buyer_contact |-> Missing,
     cust_master_name |-> "Naming Series",
     posting_dates |-> ("SINV-2026-0001" :> Value(20260105)) @@ ("SINV-2026-0002" :> Value(20260110)),
     common_codes |-> ("Leitweg-ID" :> "0204"),
     countries |-> ("Germany" :> "de"),
     delivery_notes |-> ("DN-0001" :> Value(20260112)),
     item_tax_templates |-> ("Reduced 7" :> <<[tax_type |-> "VAT 7 - EG", tax_rate |-> 7]>>),
     account_tax_rates |-> ("VAT 19 - EG" :> 19) @@ ("VAT 7 - EG" :> 7) @@ ("Freight - EG" :> 0),
     tax_row_fields |-> "none",
     sales_orders |-> ("SO-0001" :> Value(20260102)) @@ ("SO-0002" :> Value(20260103)),
     files |-> ("/private/files/timesheet.pdf" :>
                    [name |-> "a1b2c3", is_remote_file |-> FALSE,
                     file_url |-> "/private/files/timesheet.pdf", content |-> "%PDF-1.7"])
               @@ ("https://files.example.com/timesheet.pdf" :>
                    [name |-> "d4e5f6", is_remote_file |-> TRUE,
                     file_url |-> "https://files.example.com/timesheet.pdf", content |-> None]),
     rounding_method |-> "Banker's Rounding",
     precision |-> [net_rate |-> 2, qty |-> 3, net_amount |-> 2],
     mode_of_payment_types |-> ("Wire Transfer" :> "Bank") @@ ("SEPA" :> "Bank")
                               @@ ("Cheque" :> "Bank") @@ ("Cash" :> "Cash"),
     mode_of_payment_accounts |-> (<<"Wire Transfer", "Example GmbH">> :> "Bank 1 - EG")
                                  @@ (<<"SEPA", "Example GmbH">> :> "Bank 2 - EG")
                                  @@ (<<"Cash", "Example GmbH">> :> "Cash - EG"),
     bank_accounts |-> {[account |-> "Bank 1 - EG", company |-> "Example GmbH",
                         is_company_account |-> 1, disabled |-> 0,
                         iban |-> "DE02120300000000202051", bank |-> "Deutsche Kreditbank"],
                        [account |-> "Bank 2 - EG", company |-> "Example GmbH",
                         is_company_account |-> 1, disabled |-> 0,
                         iban |-> "DE02500105170137075030", bank |-> None],
                        [account |-> "Cash - EG", company |-> "Example GmbH",
                         is_company_account |-> 1, disabled |-> 0,
                         iban |-> "DE02100500000054540402", bank |-> None]},
     banks |-> ("Deutsche Kreditbank" :> "BYLADEM1001")]

BaseCodeDb ==
    [codes |-> (<<"urn:xoev-de:kosit:codeliste:rec20_3", "UOM", "Nos">> :> <<"H87">>)
               @@ (<<"urn:xoev-de:kosit:codeliste:untdid.5305_3", "Account", "VAT 19 - EG">> :> <<"S">>)
               @@ (<<"urn:xoev-de:kosit:codeliste:untdid.5305_3", "Tax Category", "Export">> :> <<"G">>)
               @@ (<<"urn:xoev-de:kosit:codeliste:vatex_1", "Tax Category", "Export">> :> <<"vatex-eu-g">>),
     defaults |-> ("urn:xoev-de:kosit:codeliste:rec20_3" :> None)]

\* the generator after __init__
NewGenerator == [item_tax_rates |-> {}, delivery_dates |-> <<>>, tax_added |-> FALSE]

\* ---- the header and the parties vary ----
PersonNameOnly ==
    [exists |-> TRUE, full_name |-> "Jane Roe", department |-> None, email_id |-> None,
     phone |-> None, mobile_no |-> None]

FullContact ==
    [exists |-> TRUE, full_name |-> "Jane Roe", department |-> "Sales",
     email_id |-> "jane@example.com", phone |-> "+49 30 1234", mobile_no |-> "+49 170 1234"]

MobileContact ==
    [exists |-> TRUE, full_name |-> "Jane Roe", department |-> None, email_id |-> None,
     phone |-> None, mobile_no |-> "+49 170 1234"]

ContactOptions == {Missing, PersonNameOnly, FullContact, MobileContact}

InitParties ==
    /\ profile \in Profiles
    /\ \E is_return \in {0, 1}, return_against \in {None, "SINV-2026-0001"},
          amended_from \in {None, "SINV-2026-0002"} :
        invoice = [BaseInvoice EXCEPT !.is_return = is_return,
                                      !.return_against = return_against,
                                      !.amended_from = amended_from]
    /\ \E seller_contact \in ContactOptions, buyer_contact \in ContactOptions,
          phone_no \in {None, "+49 30 5678"}, fax \in {None, "+49 30 5679"} :
        site = [BaseSite EXCEPT !.seller_contact = seller_contact,
                                !.buyer_contact = buyer_contact,
                                !.company.phone_no = phone_no,
                                !.company.fax = fax]
    /\ code_db = BaseCodeDb

\* ---- the line items vary ----
\* net rate and quantity at the precision of their fields, in every
\* combination of signs that has a non-zero rate
ItemOptions ==
    {[BaseItem EXCEPT !.net_rate = rq[1], !.qty = rq[2], !.net_amount = rq[3],
                      !.item_tax_template = template] :
        rq \in {<<-10000, 5000, -50000>>, <<-10000, -5000, 50000>>, <<10000, 5000, 50000>>},
        template \in {None, "Reduced 7"}}

ItemSeqs ==
    {[i \in 1..Len(items) |-> [items[i] EXCEPT !.idx = i]] :
        items \in UNION {[1..n -> ItemOptions] : n \in 1..MaxItems}}

TaxRow(charge_type, account_head, rate, tax_amount) ==
    [charge_type |-> charge_type, account_head |-> account_head, rate |-> rate,
     tax_amount |-> tax_amount, total |-> 0, net_amount |-> 0, custom_net_amount |-> 0,
     description |-> account_head]

LineTaxOptions ==
    {<<>>,
     <<TaxRow("On Net Total", "VAT 19 - EG", 19, 9500)>>,
     <<TaxRow("On Net Total", "Freight - EG", 0, 0)>>,
     <<TaxRow("On Net Total", "VAT 7 - EG", 7, 3500), TaxRow("Actual", "Freight - EG", 0, 5000)>>}

\* Code List data for tax categories and exemption reasons
LineCodeDbs ==
    {[codes |-> (<<"urn:xoev-de:kosit:codeliste:untdid.5305_3", "Item Tax Template", "Reduced 7">> :> template_codes)
                @@ (<<"urn:xoev-de:kosit:codeliste:untdid.5305_3", "Tax Category", "Export">> :> category_codes)
                @@ (<<"urn:xoev-de:kosit:codeliste:vatex_1", "Tax Category", "Export">> :> reason_codes),
      defaults |-> ("urn:xoev-de:kosit:codeliste:untdid.5305_3" :> category_default)
                   @@ ("urn:xoev-de:kosit:codeliste:vatex_1" :> None)] :
        template_codes \in {<<>>, <<"Z">>, <<"S">>},
        category_codes \in {<<>>, <<"AE">>},
        reason_codes \in {<<>>, <<"vatex-eu-o">>},
        category_default \in {None, "E"}}

InitLines ==
    /\ profile \in {BASIC, EXTENDED}
    /\ \E items \in ItemSeqs, taxes \in LineTaxOptions :
        invoice = [BaseInvoice EXCEPT !.items = items, !.taxes = taxes]
    /\ site = BaseSite
    /\ code_db \in LineCodeDbs

\* ---- the tax rows and the totals vary ----
TaxRowOptions ==
    {TaxRow(charge_type, "VAT 19 - EG", ra[1], ra[2]) :
        charge_type \in {"Actual", "On Net Total", "On Previous Row Amount",
                         "On Previous Row Total", "On Item Quantity"},
        ra \in {<<19, 9505>>, <<0, 0>>}}

\* ERPNext keeps in every tax row the running total up to that row
RECURSIVE with_running_total(_, _, _)
with_running_total(rows, before, i) ==
    IF i > Len(rows) THEN <<>>
    ELSE <<[rows[i] EXCEPT !.total = before + rows[i].tax_amount]>>
         \o with_running_total(rows, before + rows[i].tax_amount, i + 1)

TaxSeqs ==
    {rows : rows \in UNION {[1..n -> TaxRowOptions] : n \in 0..MaxTaxes}}

all_rows(tax) == TRUE

InitTaxes ==
    /\ profile \in Profiles
    /\ \E rows \in TaxSeqs, net_total \in {100000, 100005},
          paid \in {<<0, 0>>, <<0, 20004>>, <<4, 20004>>, <<50005, 0>>} :
        invoice = [BaseInvoice EXCEPT
                     !.taxes = with_running_total(rows, net_total, 1),
                     !.net_total = net_total,
                     !.grand_total = net_total + sum_tax_amount(rows, all_rows, 1),
                     !.outstanding_amount = paid[1],
                     !.total_advance = paid[2]]
    /\ \E rounding_method \in {"Banker's Rounding", "Commercial Rounding"} :
        site = [BaseSite EXCEPT !.rounding_method = rounding_method]
    /\ code_db = BaseCodeDb

\* ---- the references to orders and to the embedded document vary ----
OrderedItemSeqs ==
    {[i \in 1..Len(orders) |-> [BaseItem EXCEPT !.idx = i, !.sales_order = orders[i]]] :
        orders \in UNION {[1..n -> {None, "SO-0001", "SO-0002"}] : n \in 1..MaxItems}}

InitReferences ==
    /\ profile \in Profiles
    /\ \E buyer_reference \in {None, "04011000-1234512345-06"}, po_no \in {None, "PO-7"},
          po_date \in {NoValue, Value(20251220)}, items \in OrderedItemSeqs,
          embedded \in {None, "/private/files/timesheet.pdf",
                        "https://files.example.com/timesheet.pdf"} :
        invoice = [BaseInvoice EXCEPT !.buyer_reference = buyer_reference,
                                      !.po_no = po_no,
                                      !.po_date = po_date,
                                      !.items = items,
                                      !.einvoice_embedded_document = embedded]
    /\ site = BaseSite
    /\ code_db = BaseCodeDb

\* ---- the On Net Total rows, the fields of a tax row and the item tax
\* templates vary ----
NetTotalRowOptions ==
    {[TaxRow("On Net Total", row[1], row[2], row[3])
         EXCEPT !.net_amount = 50000, !.custom_net_amount = 40000] :
        row \in {<<"VAT - EG", 0, 0>>, <<"VAT - EG", 7, 3500>>, <<"VAT - EG", 0, 3500>>,
                 <<"VAT 19 - EG", 0, 9505>>}}

NetTotalRowSeqs == UNION {[1..n -> NetTotalRowOptions] : n \in 1..MaxTaxes}

TemplateItemSeqs ==
    {[i \in 1..Len(templates) |->
         [BaseItem EXCEPT !.idx = i, !.item_tax_template = templates[i]]] :
        templates \in UNION {[1..n -> {None, "Reduced 7 VAT", "Zero VAT"}] : n \in 1..MaxItems}}

\* the templates book on the account of the tax row; the lines of the zero
\* rate template have category Z, the others the default S
NetTotalCodeDb ==
    [codes |-> (<<"urn:xoev-de:kosit:codeliste:untdid.5305_3", "Item Tax Template", "Zero VAT">>
                    :> <<"Z">>)
               @@ (<<"urn:xoev-de:kosit:codeliste:rec20_3", "UOM", "Nos">> :> <<"H87">>),
     defaults |-> ("urn:xoev-de:kosit:codeliste:untdid.5305_3" :> "S")
                  @@ ("urn:xoev-de:kosit:codeliste:vatex_1" :> None)]

InitNetTotalRows ==
    /\ profile = EN16931
    /\ \E items \in TemplateItemSeqs, taxes \in NetTotalRowSeqs :
        invoice = [BaseInvoice EXCEPT !.items = items, !.taxes = taxes, !.tax_category = None,
                                      !.net_total = 50000 * Len(items),
                                      !.grand_total = 50000 * Len(items)
                                                      + sum_tax_amount(taxes, all_rows, 1),
                                      !.outstanding_amount = 50000 * Len(items)
                                                      + sum_tax_amount(taxes, all_rows, 1)]
    /\ \E tax_row_fields \in {"none", "net_amount", "custom_net_amount"} :
        site = [BaseSite EXCEPT
                  !.tax_row_fields = tax_row_fields,
                  !.item_tax_templates =
                      ("Reduced 7 VAT" :> <<[tax_type |-> "VAT - EG", tax_rate |-> 7]>>)
                      @@ ("Zero VAT" :> <<[tax_type |-> "VAT - EG", tax_rate |-> 0]>>)]
    /\ code_db = NetTotalCodeDb

\* ---- the payment schedule varies ----
MaxSchedule == 2

ScheduleRow(description, payment_amount, discount_type, discount, discount_date,
            mode_of_payment) ==
    [description |-> description, due_date |-> Value(20260214),
     payment_amount |-> payment_amount, discount_type |-> discount_type,
     discount |-> discount, discount_date |-> discount_date,
     mode_of_payment |-> mode_of_payment]

\* the posting date is 2026-01-15; discounts in percent count thousandths
ScheduleOptions ==
    {ScheduleRow(None, 50000, "Percentage", 2000, Value(20260110), "Wire Transfer"),
     ScheduleRow("Order #12", 30000, "Percentage", 2000, Value(20260110), "SEPA"),
     ScheduleRow("Order #12", 30000, "Percentage", 2500, Value(20260125), "Cash"),
     ScheduleRow(None, 20000, "Amount", 5000, Value(20260110), "Cheque"),
     ScheduleRow("30 days net", 50000, "Percentage", 0, NoValue, None),
     ScheduleRow(None, 0, "Percentage", 2000, Value(20251230), "SEPA"),
     ScheduleRow(None, 30000, "Percentage", 2000, NoValue, "Wire Transfer")}

ScheduleSeqs == UNION {[1..n -> ScheduleOptions] : n \in 1..MaxSchedule}

InitPayments ==
    /\ profile \in Profiles
    /\ \E payment_schedule \in ScheduleSeqs :
        invoice = [BaseInvoice EXCEPT !.payment_schedule = payment_schedule]
    /\ site = BaseSite
    /\ code_db = BaseCodeDb

InitGen ==
    /\ InitParties \/ InitLines \/ InitTaxes \/ InitReferences \/ InitNetTotalRows
       \/ InitPayments
    /\ doc = [created |-> FALSE]
    /\ gen = NewGenerator
    /\ pc = "create_einvoice"
    /\ IdleProfile
    /\ retriever = [code_lists |-> <<>>, default_code |-> None]
    /\ records = <<>>
    /\ res = NoResult
    /\ IdleValidate
    /\ IdleImport

varsInput == <<profile, invoice, site, code_db, varsProfile, varsCodes, varsValidate, engine,
               varsImport>>

\* create_einvoice: self.doc = Document(); self._set_context()
SetContext ==
    /\ pc = "create_einvoice"
    /\ doc' = set_context(Document, profile)
    /\ pc' = "header"
    /\ UNCHANGED <<gen, varsInput>>

SetHeader ==
    /\ pc = "header"
    /\ doc' = set_header(doc, invoice, site)
    /\ pc' = "seller"
    /\ UNCHANGED <<gen, varsInput>>

SetSeller ==
    /\ pc = "seller"
    /\ doc' = set_seller(doc, profile, invoice, site)
    /\ pc' = "buyer"
    /\ UNCHANGED <<gen, varsInput>>

SetBuyer ==
    /\ pc = "buyer"
    /\ doc' = set_buyer(doc, profile, invoice, site)
    /\ pc' = "agreement"
    /\ UNCHANGED <<gen, varsInput>>

\* create_einvoice: buyer reference, buyer order and the embedded document
SetAgreement ==
    /\ pc = "agreement"
    /\ doc' = embed_attachment_if_allowed(set_buyer_order(doc, profile, invoice),
                                          profile, invoice, site)
    /\ pc' = "items"
    /\ UNCHANGED <<gen, varsInput>>

\* one round of the loop `for item in self.invoice.items`
AddLineItem ==
    /\ pc = "items"
    /\ Len(doc.items) < Len(invoice.items)
    /\ LET after == add_line_item(doc, gen, profile, invoice, site, code_db,
                                  invoice.items[Len(doc.items) + 1])
       IN  /\ doc' = after.doc
           /\ gen' = after.gen
    /\ pc' = IF Len(doc.items) + 1 = Len(invoice.items) THEN "seller_order" ELSE "items"
    /\ UNCHANGED varsInput

\* create_einvoice: `if len(sales_orders) == 1 and self.profile >= EXTENDED`
SetSellerOrder ==
    /\ pc = "seller_order"
    /\ doc' = set_seller_order(doc, profile, invoice, site)
    /\ pc' = "taxes"
    /\ UNCHANGED <<gen, varsInput>>

AddTaxesAndCharges ==
    /\ pc = "taxes"
    /\ LET after == add_taxes_and_charges(doc, gen, profile, invoice, site, code_db)
       IN  /\ doc' = after.doc
           /\ gen' = after.gen
    /\ pc' = "empty_tax"
    /\ UNCHANGED varsInput

\* `if not tax_added: self._add_empty_tax()` and the currency code
AddEmptyTax ==
    /\ pc = "empty_tax"
    /\ doc' = [empty_tax_if_none_added(doc, gen, invoice, code_db)
                 EXCEPT !.currency_code = invoice.currency]
    /\ pc' = "payment"
    /\ UNCHANGED <<gen, varsInput>>

\* create_einvoice from _add_payment_means to _add_payment_terms: the payment
\* means, the billing period, the delivery date and the payment terms.  The
\* modes of payment are a Python set of strings, iterated in an order that
\* the hash seed of the process decides
AddPayment ==
    /\ pc = "payment"
    /\ \E modes \in iteration_orders(schedule_modes(invoice)) :
        doc' = add_payment_terms(
                   add_period_and_delivery_date(
                       add_payment_means(doc, profile, invoice, site, code_db, modes),
                       gen, invoice),
                   profile, invoice)
    /\ pc' = "totals"
    /\ UNCHANGED <<gen, varsInput>>

SetTotals ==
    /\ pc = "totals"
    /\ doc' = set_totals(doc, invoice, site)
    /\ pc' = "done"
    /\ UNCHANGED <<gen, varsInput>>

\* the steps of create_einvoice in the order they run
Steps == <<"create_einvoice", "header", "seller", "buyer", "agreement", "items",
           "seller_order", "taxes", "empty_tax", "payment", "totals", "done",
           "imported">>

\* the step named `step` has run
Passed(step) == pc \in {Steps[i] : i \in (index(Steps, step) + 1)..Len(Steps)}

C6_SignNormalization ==
    doc.created =>
        \A k \in 1..Len(doc.items) :
            LET item == invoice.items[k]
                price == doc.items[k].net_amount[1]
                quantity == doc.items[k].billed_quantity[1]
            IN  /\ (item.net_rate < 0 /\ item.qty > 0) =>
                        (price = -item.net_rate /\ quantity = -item.qty)
                /\ ~(item.net_rate < 0 /\ item.qty > 0) =>
                        (price = item.net_rate /\ quantity = item.qty)
                /\ price * quantity = item.net_rate * item.qty

\* rate -10 and qty 5 emitted as 10 and -5, then rate -10 and qty -5 unchanged
C6_Witness ==
    /\ pc = "done"
    /\ Len(doc.items) = 2
    /\ invoice.items[1].net_rate = -10000 /\ invoice.items[1].qty = 5000
    /\ doc.items[1].net_amount = Value(10000) /\ doc.items[1].billed_quantity[1] = -5000
    /\ invoice.items[2].net_rate = -10000 /\ invoice.items[2].qty = -5000
    /\ doc.items[2].net_amount = Value(-10000) /\ doc.items[2].billed_quantity[1] = -5000

\* the exemption reason codes of the Code List data, upper-cased
UpperCaseReasons == {"VATEX-EU-AE", "VATEX-EU-O", "VATEX-EU-G"}

\* C7: a line whose tax category is AE, E, G, K or Z is emitted with rate 0
\* whatever its tax template or the tax rows give, and every line emitted
\* with rate 0 carries a non-empty upper-case exemption reason code.
C7_ZeroRatedLines ==
    doc.created =>
        \A k \in 1..Len(doc.items) :
            LET li == doc.items[k]
            IN  /\ (li.category_code \in {"AE", "E", "G", "K", "Z"}) =>
                        li.rate_applicable_percent = Value(0)
                /\ (li.rate_applicable_percent = Value(0)) =>
                        li.exemption_reason_code \in UpperCaseReasons

\* category Z on a line whose item tax template would give 7 percent
C7_Witness ==
    /\ pc = "done"
    /\ doc.items[1].category_code = "Z"
    /\ invoice.items[1].item_tax_template = "Reduced 7"
    /\ \E n \in 1..Len(invoice.taxes) : invoice.taxes[n].account_head = "VAT 7 - EG"
    /\ doc.items[1].rate_applicable_percent = Value(0)
    /\ doc.items[1].exemption_reason_code = "VATEX-EU-O"

\* the tax rows for which the loop of _add_taxes_and_charges emits a trade tax
EmittingRows ==
    {n \in 1..Len(invoice.taxes) :
        invoice.taxes[n].charge_type \in
            {"On Net Total", "On Previous Row Amount", "On Previous Row Total"}}

\* the codes the tax category code list holds for a record
CategoryCodesOf(doctype, name) ==
    LET key == <<"urn:xoev-de:kosit:codeliste:untdid.5305_3", doctype, name>>
    IN  IF name # None /\ key \in DOMAIN code_db.codes THEN code_db.codes[key] ELSE <<>>

\* the category of the invoice's tax category, or else of its tax template,
\* or else the default of the code list, or else S
PlaceholderCategory ==
    LET by_category == CategoryCodesOf("Tax Category", invoice.tax_category)
        by_template == CategoryCodesOf("Sales Taxes and Charges Template", invoice.taxes_and_charges)
        defaults == code_db.defaults
        list == "urn:xoev-de:kosit:codeliste:untdid.5305_3"
    IN  IF by_category # <<>> THEN by_category[1]
        ELSE IF by_template # <<>> THEN by_template[1]
        ELSE IF list \in DOMAIN defaults /\ defaults[list] # None THEN defaults[list]
        ELSE "S"

\* the zero-rate placeholder: rate 0, amount 0, basis the net total, the
\* category resolved from tax category and tax template only
IsPlaceholder(trade_tax) ==
    /\ trade_tax.rate_applicable_percent = Value(0)
    /\ trade_tax.calculated_amount = Value(0)
    /\ trade_tax.basis_amount = Value(invoice.net_total)
    /\ trade_tax.type_code = "VAT"
    /\ trade_tax.category_code = PlaceholderCategory
    /\ trade_tax.exemption_reason_code \in UpperCaseReasons

\* C8: after create_einvoice the document has at least one settlement trade
\* tax; the zero-rate placeholder is added if and only if the tax-row loop
\* emitted no trade tax (no tax rows, or only rows that emit none).
C8_AlwaysOneTradeTax ==
    Passed("empty_tax") =>
        /\ Len(doc.trade_tax) >= 1
        /\ (EmittingRows = {}) => (Len(doc.trade_tax) = 1 /\ IsPlaceholder(doc.trade_tax[1]))
        /\ (EmittingRows # {}) => Len(doc.trade_tax) = Cardinality(EmittingRows)

\* all tax rows are Actual and emitted as service charges: the placeholder
\* is the only trade tax
C8_Witness ==
    /\ pc = "done"
    /\ Len(invoice.taxes) = 2
    /\ \A n \in 1..Len(invoice.taxes) : invoice.taxes[n].charge_type = "Actual"
    /\ Len(doc.service_charge) = 2
    /\ Len(doc.trade_tax) = 1
    /\ IsPlaceholder(doc.trade_tax[1])

\* r is x rounded to 2 decimals: a whole number of hundredths at most half
\* a hundredth away from x (amounts count thousandths)
RoundedTo2(r, x) == r % 10 = 0 /\ r - x <= 5 /\ x - r <= 5

RECURSIVE SumOfRows(_, _)
SumOfRows(rows, select) ==
    IF select = {} THEN 0
    ELSE LET n == CHOOSE m \in select : TRUE
         IN  rows[n].tax_amount + SumOfRows(rows, select \ {n})

ActualRows == {n \in 1..Len(invoice.taxes) : invoice.taxes[n].charge_type = "Actual"}

\* C9: line total, tax-basis total (net total plus Actual amounts), tax total
\* (amounts of the other rows), due amount (outstanding amount) are emitted
\* rounded to 2 decimals; the prepaid total is the rounded grand total when the
\* outstanding amount is exactly zero, else the rounded advance; no emitted
\* total has more than 2 decimals.
C9_MonetarySummation ==
    (pc = "done") =>
        LET sums == doc.monetary_summation
            actual == SumOfRows(invoice.taxes, ActualRows)
            other == SumOfRows(invoice.taxes, (1..Len(invoice.taxes)) \ ActualRows)
        IN  /\ RoundedTo2(sums.line_total[1], invoice.net_total)
            /\ RoundedTo2(sums.tax_basis_total[1], invoice.net_total + actual)
            /\ Len(sums.tax_total_other_currency) = 1
            /\ RoundedTo2(sums.tax_total_other_currency[1][1], other)
            /\ RoundedTo2(sums.due_amount[1], invoice.outstanding_amount)
            /\ RoundedTo2(sums.grand_total[1], invoice.grand_total)
            /\ IF invoice.outstanding_amount = 0
               THEN sums.prepaid_total = sums.grand_total
               ELSE RoundedTo2(sums.prepaid_total[1], invoice.total_advance)
            /\ (sums.charge_total # NoValue) => sums.charge_total[1] % 10 = 0

\* net total 100.005, rounded commercially to 100.01, and an Actual charge
\* of 9.505 with nothing outstanding
C9_Witness ==
    /\ pc = "done"
    /\ invoice.net_total = 100005
    /\ site.rounding_method = "Commercial Rounding"
    /\ doc.monetary_summation.line_total = Value(100010)
    /\ ActualRows # {}
    /\ invoice.outstanding_amount = 0
    /\ invoice.total_advance = 20004
    /\ doc.monetary_summation.tax_basis_total = Value(109510)
    /\ doc.monetary_summation.prepaid_total = doc.monetary_summation.grand_total

ContactShown(contact) ==
    contact.person_name # None \/ contact.department_name # None \/ contact.email # None

\* C10: the seller and buyer contact (person name, department, email) is
\* emitted only above BASIC, a contact telephone only from EN16931 on, the
\* seller fax only for EXTENDED; for BASIC no contact field is emitted.
C10_ContactGates ==
    Passed("buyer") =>
        /\ (ContactShown(doc.seller.contact) \/ ContactShown(doc.buyer.contact)) =>
                DocumentedRank[profile] > DocumentedRank[BASIC]
        /\ (doc.seller.contact.telephone # None \/ doc.buyer.contact.telephone # None) =>
                DocumentedRank[profile] >= DocumentedRank[EN16931]
        /\ (doc.seller.contact.fax # None) => profile = EXTENDED
        /\ (doc.buyer.contact.fax # None) => profile = EXTENDED
        /\ (profile = BASIC) =>
                (doc.seller.contact = EmptyContact /\ doc.buyer.contact = EmptyContact)

\* XRECHNUNG with full contacts and a company fax: contacts and telephone
\* are emitted, the fax is not
C10_Witness ==
    /\ pc = "done"
    /\ profile = XRECHNUNG
    /\ site.seller_contact = FullContact /\ site.buyer_contact = MobileContact
    /\ site.company.fax # None
    /\ doc.seller.contact.person_name = "Jane Roe"
    /\ doc.seller.contact.telephone = "+49 30 1234"
    /\ doc.buyer.contact.telephone = "+49 170 1234"
    /\ doc.seller.contact.fax = None

\* the three cross-references of claim C11, as the finished document holds them
BuyerOrderEmitted == doc.buyer_order.issuer_assigned_id # None
SellerOrderEmitted == doc.seller_order.issuer_assigned_id # None
SupportingDocumentEmitted == Len(doc.additional_references) > 0

\* C11 as stated: the buyer order, the seller order and the embedded
\* supporting document are emitted only when the profile is >= EXTENDED; for
\* BASIC, EN16931 and XRECHNUNG none of the three is emitted.
C11_AllThreeOnlyExtended ==
    (pc = "done" /\ ~ge(profile, EXTENDED))
        => ~BuyerOrderEmitted /\ ~SellerOrderEmitted /\ ~SupportingDocumentEmitted

\* C11 as the code has it: the seller order is emitted exactly when the
\* items name one sales order and the profile is >= EXTENDED; the buyer
\* order id is emitted for every profile exactly when the invoice has a
\* purchase-order number, and only its date is limited to >= EXTENDED; the
\* embedded supporting document is emitted exactly when the invoice names
\* one and the profile is >= EN16931, that is for every profile but BASIC.
C11_OrderAndAttachmentGates ==
    pc = "done" =>
        /\ SellerOrderEmitted
            <=> (Cardinality(sales_orders_of(invoice)) = 1 /\ profile = EXTENDED)
        /\ SellerOrderEmitted =>
            /\ doc.seller_order.issuer_assigned_id \in sales_orders_of(invoice)
            /\ doc.seller_order.issue_date_time
                   = site.sales_orders[doc.seller_order.issuer_assigned_id]
        /\ doc.buyer_order.issuer_assigned_id = invoice.po_no
        /\ doc.buyer_order.issue_date_time =
               IF invoice.po_no # None /\ profile = EXTENDED THEN invoice.po_date ELSE NoValue
        /\ SupportingDocumentEmitted
            <=> (invoice.einvoice_embedded_document # None /\ profile # BASIC)
        /\ Len(doc.additional_references) <= 1
        /\ SupportingDocumentEmitted => doc.additional_references[1].type_code = "916"

\* an XRECHNUNG invoice with a purchase order, one sales order and an
\* attachment: buyer order and attachment are there, the seller order is not
C11_Witness ==
    /\ pc = "done"
    /\ profile = XRECHNUNG
    /\ invoice.po_no = "PO-7"
    /\ invoice.po_date # NoValue
    /\ Cardinality(sales_orders_of(invoice)) = 1
    /\ invoice.einvoice_embedded_document = "/private/files/timesheet.pdf"
    /\ BuyerOrderEmitted /\ doc.buyer_order.issue_date_time = NoValue
    /\ ~SellerOrderEmitted
    /\ SupportingDocumentEmitted
    /\ doc.additional_references[1].attached_object
           = <<"application/pdf", "timesheet.pdf", "JVBERi0xLjc=">>

(***************************************************************************)
(* schematron/__init__.py: the rule sets and the report of the engine      *)
(***************************************************************************)
PROFILE_TO_XSL ==
    (BASIC :> "Factur-X_1.07.2_BASIC.xsl")
    @@ (EN16931 :> "EN16931-CII-validation-preprocessed.xsl")
    @@ (EXTENDED :> "Factur-X_1.07.2_EXTENDED.xsl")
    @@ (XRECHNUNG :> "XRechnung-CII-validation.xsl")

Stylesheets == {PROFILE_TO_XSL[p] : p \in Profiles}

\* the prefix of the rule ids of a stylesheet
rule_prefix(stylesheet) ==
    CASE stylesheet = PROFILE_TO_XSL[BASIC] -> "FX-SCH-A"
      [] stylesheet = PROFILE_TO_XSL[EN16931] -> "BR"
      [] stylesheet = PROFILE_TO_XSL[EXTENDED] -> "BR-FXEXT"
      [] stylesheet = PROFILE_TO_XSL[XRECHNUNG] -> "BR-DE"

\* the message of rule k of a stylesheet and the svrl:text element that
\* carries it in the report, indented as the engine writes it
rule_message(stylesheet, k) == "[" \o rule_prefix(stylesheet) \o "-" \o ToString(k) \o "] failed"
svrl_text(stylesheet, k) == "\n      " \o rule_message(stylesheet, k) \o "\n    "

RuleNumbers == 1..3

\* str.strip() of the texts of a report
text_strip(text) ==
    LET messages == {rule_message(x, k) : x \in Stylesheets, k \in RuleNumbers}
    IN  IF \E m \in messages : text = "\n      " \o m \o "\n    "
        THEN CHOOSE m \in messages : text = "\n      " \o m \o "\n    "
        ELSE text

\* the list comprehensions of extract_failed_asserts:
\* [t.text.strip() for t in texts if t.text]
RECURSIVE stripped_texts(_)
stripped_texts(texts) ==
    IF texts = <<>> THEN <<>>
    ELSE (IF truthy(Head(texts)) THEN <<text_strip(Head(texts))>> ELSE <<>>)
         \o stripped_texts(Tail(texts))

\* extract_failed_asserts: (errors, warnings) of a report
extract_failed_asserts(report) ==
    [errors |-> stripped_texts(report.failed_asserts),
     warnings |-> stripped_texts(report.successful_reports)]

\* get_validation_report: the engine raises or returns its report
get_validation_report(eng, stylesheet) == eng[stylesheet]

\* get_validation_errors(xml_string, profile): raises when the engine does
get_validation_errors(eng, p) ==
    LET report == get_validation_report(eng, PROFILE_TO_XSL[p])
    IN  IF report.raises THEN [raises |-> TRUE, errors |-> <<>>, warnings |-> <<>>]
        ELSE [raises |-> FALSE] @@ extract_failed_asserts(report)

\* Python any() over a list of strings
any(list) == \E i \in 1..Len(list) : truthy(list[i])

\* "\n".join(list)
RECURSIVE join(_)
join(list) ==
    IF list = <<>> THEN ""
    ELSE IF Len(list) = 1 THEN list[1]
    ELSE list[1] \o "\n" \o join(Tail(list))

\* the outcomes of the engine the model draws from, for one stylesheet
Raises == [raises |-> TRUE, failed_asserts |-> <<>>, successful_reports |-> <<>>]

\* a report without findings, with one failed assert, with two failed
\* asserts after one that has no text and a warning, with a warning alone
ReportOptions(stylesheet) ==
    {[raises |-> FALSE, failed_asserts |-> texts[1], successful_reports |-> texts[2]] :
        texts \in {<<<<>>, <<>>>>,
                   <<<<svrl_text(stylesheet, 1)>>, <<>>>>,
                   <<<<None, svrl_text(stylesheet, 1), svrl_text(stylesheet, 2)>>,
                     <<svrl_text(stylesheet, 3)>>>>,
                   <<<<>>, <<svrl_text(stylesheet, 3)>>>>}}

CleanReport == [raises |-> FALSE, failed_asserts |-> <<>>, successful_reports |-> <<>>]

\* the engine: the rule sets of XRECHNUNG and EN16931 vary independently,
\* the two Factur-X rule sets take the outcome `other`
Engines ==
    {(PROFILE_TO_XSL[XRECHNUNG] :> strict) @@ (PROFILE_TO_XSL[EN16931] :> baseline)
     @@ (PROFILE_TO_XSL[BASIC] :> other[1]) @@ (PROFILE_TO_XSL[EXTENDED] :> other[2]) :
        strict \in ReportOptions(PROFILE_TO_XSL[XRECHNUNG]) \cup {Raises},
        baseline \in ReportOptions(PROFILE_TO_XSL[EN16931]) \cup {Raises},
        other \in {<<CleanReport, Raises>>,
                   <<[CleanReport EXCEPT !.failed_asserts = <<svrl_text(PROFILE_TO_XSL[BASIC], 1)>>],
                     [CleanReport EXCEPT !.successful_reports =
                                             <<svrl_text(PROFILE_TO_XSL[EXTENDED], 3)>>]>>}}

(***************************************************************************)
(* e_invoice_settings.py: EInvoiceSettings                                 *)
(***************************************************************************)
\* DocStatus.draft() and DocStatus.submitted()
Draft == 0
Submitted == 1

ErrorActions == {"", "Warning Message", "Error Message"}

\* EInvoiceSettings.before_validate
before_validate(self) ==
    [self EXCEPT
        !.error_action_on_save =
            IF self.validate_sales_invoice_on_save = 0 THEN "" ELSE @,
        !.error_action_on_submit =
            IF self.validate_sales_invoice_on_submit = 0 THEN "" ELSE @]

\* EInvoiceSettings.should_validate
should_validate(self, docstatus) ==
    \/ docstatus = Submitted /\ self.validate_sales_invoice_on_submit # 0
    \/ docstatus = Draft /\ self.validate_sales_invoice_on_save # 0

\* EInvoiceSettings.should_raise_exception
should_raise_exception(self, docstatus) ==
    \/ docstatus = Submitted /\ self.error_action_on_submit = "Error Message"
    \/ docstatus = Draft /\ self.error_action_on_save = "Error Message"

\* EInvoiceSettings.should_show_message
should_show_message(self, docstatus) ==
    \/ docstatus = Submitted /\ truthy(self.error_action_on_submit)
    \/ docstatus = Draft /\ truthy(self.error_action_on_save)

(***************************************************************************)
(* sales_invoice.py: validate_einvoice and validate_doc                    *)
(***************************************************************************)
CannotCreate == "Cannot create E Invoice."
CannotValidate == "Cannot validate E Invoice schematron."

\* EInvoiceProfile(value) raises ValueError for a value that is no member
is_profile(value) == value \in Profiles

\* validate_einvoice: the two calls of get_validation_errors inside the
\* second try block; `evaluated` lists the rule sets handed to the engine
validation_passes_single(eng, value) ==
    LET first == get_validation_errors(eng, value)
    IN  [raises |-> first.raises, errors |-> first.errors, warnings |-> first.warnings,
         evaluated |-> <<PROFILE_TO_XSL[value]>>]

validation_passes(eng, value) ==
    LET first == get_validation_errors(eng, value)
        basic == get_validation_errors(eng, EN16931)
    IN  IF first.raises
        THEN [raises |-> TRUE, errors |-> <<>>, warnings |-> <<>>,
              evaluated |-> <<PROFILE_TO_XSL[value]>>]
        ELSE IF value = XRECHNUNG
        THEN [raises |-> basic.raises,
              errors |-> first.errors \o basic.errors,
              warnings |-> first.warnings \o basic.warnings,
              evaluated |-> <<PROFILE_TO_XSL[value], PROFILE_TO_XSL[EN16931]>>]
        ELSE [raises |-> FALSE, errors |-> first.errors, warnings |-> first.warnings,
              evaluated |-> <<PROFILE_TO_XSL[value]>>]

\* validate_einvoice(doc); `log` collects the frappe.log_error entries.
\* get_einvoice raises when the generation fails (d.generation) and when
\* EInvoiceProfile(invoice.einvoice_profile) does
validate_einvoice(d, eng) ==
    LET reset == [d EXCEPT !.einvoice_is_correct = 0, !.validation_errors = "",
                           !.validation_warnings = ""]
        passes == validation_passes(eng, d.einvoice_profile)
    IN  IF ~truthy(d.einvoice_profile)
        THEN [doc |-> reset, log |-> <<>>, evaluated |-> <<>>]
        ELSE IF d.generation = "raises" \/ ~is_profile(d.einvoice_profile)
        THEN [doc |-> [reset EXCEPT !.validation_errors = CannotCreate],
              log |-> <<CannotCreate>>, evaluated |-> <<>>]
        ELSE IF passes.raises
        THEN [doc |-> [reset EXCEPT !.validation_errors = CannotValidate],
              log |-> <<CannotValidate>>, evaluated |-> passes.evaluated]
        ELSE [doc |-> [reset EXCEPT
                         !.einvoice_is_correct = IF any(passes.errors) THEN 0 ELSE 1,
                         !.validation_errors =
                             IF any(passes.errors) THEN @ \o join(passes.errors) ELSE @,
                         !.validation_warnings =
                             IF any(passes.warnings) THEN @ \o join(passes.warnings) ELSE @],
              log |-> <<>>, evaluated |-> passes.evaluated]

\* frappe.utils.date_diff of two dates given as day numbers
date_diff(d2, d1) == d2[1] - d1[1]

\* the error lists validate_einvoice can store for the engines of the model
ErrorLists ==
    LET single == {stripped_texts(r.failed_asserts) :
                       r \in UNION {ReportOptions(x) : x \in Stylesheets}}
    IN  single \cup {l1 \o l2 : l1 \in single, l2 \in single}

\* "<br><br>".join(list)
RECURSIVE join_br(_)
join_br(list) ==
    IF list = <<>> THEN ""
    ELSE IF Len(list) = 1 THEN list[1]
    ELSE list[1] \o "<br><br>" \o join_br(Tail(list))

\* doc.validation_errors.replace("\n", "<br><br>")
replace_newlines(text) ==
    IF \E l \in ErrorLists : join(l) = text
    THEN join_br(CHOOSE l \in ErrorLists : join(l) = text)
    ELSE text

\* validate_doc: the loop over doc.taxes from row i on.  The comparison
\* with EXTENDED evaluates EInvoiceProfile(doc.einvoice_profile), which
\* raises ValueError for a value that names no profile
RECURSIVE tax_row_messages(_, _)
tax_row_messages(d, i) ==
    IF i > Len(d.taxes) THEN [msgs |-> <<>>, raised |-> FALSE]
    ELSE LET tax_row == d.taxes[i]
             first == IF tax_row.charge_type = "On Item Quantity"
                      THEN <<[text |-> "Type is not supported in e-invoice", row |-> i]>>
                      ELSE <<>>
             rest == tax_row_messages(d, i + 1)
         IN  IF tax_row.charge_type = "Actual" /\ ~is_profile(d.einvoice_profile)
             THEN [msgs |-> first, raised |-> TRUE]
             ELSE IF tax_row.charge_type = "Actual" /\ lt(d.einvoice_profile, EXTENDED)
             THEN [msgs |-> first
                            \o <<[text |-> "The charge type 'Actual' is only supported in the eInvoice profiles 'EXTENDED' and 'XRECHNUNG'.",
                                  row |-> i]>>
                            \o rest.msgs,
                   raised |-> rest.raised]
             ELSE [msgs |-> first \o rest.msgs, raised |-> rest.raised]

\* validate_doc: the loop over doc.payment_schedule
RECURSIVE payment_schedule_messages(_, _)
payment_schedule_messages(d, i) ==
    IF i > Len(d.payment_schedule) THEN <<>>
    ELSE LET ps == d.payment_schedule[i]
         IN  (IF ps.discount_date # NoValue /\ date_diff(ps.discount_date, d.posting_date) < 0
              THEN <<[text |-> "Discount Date should be after Posting Date", row |-> i]>>
              ELSE <<>>)
             \o payment_schedule_messages(d, i + 1)

modes_of_payment_of(d) ==
    {d.payment_schedule[i].mode_of_payment :
        i \in {n \in 1..Len(d.payment_schedule) : truthy(d.payment_schedule[n].mode_of_payment)}}

\* validate_doc: the alerts raised after the loop over the taxes
form_messages(d) ==
    payment_schedule_messages(d, 1)
    \o (IF Cardinality(modes_of_payment_of(d)) > 1
        THEN <<[text |-> "Only one mode of payment will be considered in the e-invoice.",
                row |-> 0]>>
        ELSE <<>>)
    \o (IF d.discount_amount # 0
        THEN <<[text |-> "A document level discount is currently not supported in the e-invoice.",
                row |-> 0]>>
        ELSE <<>>)

\* validate_doc(doc, event): the messages shown, whether the handler raised,
\* and the document as the handler leaves it
validate_doc(d, event, st, eng) ==
    LET rows == tax_row_messages(d, 1)
        validated == validate_einvoice(d, eng)
    IN  IF rows.raised
        THEN [doc |-> d, msgs |-> rows.msgs, raised |-> TRUE, log |-> <<>>,
              evaluated |-> <<>>, validated |-> FALSE]
        ELSE IF ~should_validate(st, d.docstatus)
        THEN [doc |-> d, msgs |-> rows.msgs \o form_messages(d), raised |-> FALSE,
              log |-> <<>>, evaluated |-> <<>>, validated |-> FALSE]
        ELSE [doc |-> validated.doc,
              msgs |-> rows.msgs \o form_messages(d)
                       \o (IF validated.doc.einvoice_is_correct = 0
                              /\ should_show_message(st, d.docstatus)
                           THEN <<[text |-> replace_newlines(validated.doc.validation_errors),
                                   row |-> 0]>>
                           ELSE <<>>),
              raised |-> validated.doc.einvoice_is_correct = 0
                         /\ should_show_message(st, d.docstatus)
                         /\ should_raise_exception(st, d.docstatus),
              log |-> validated.log, evaluated |-> validated.evaluated, validated |-> TRUE]

(***************************************************************************)
(* SpecSite: documents of one site are edited, saved and submitted.  An    *)
(* initial state holds either a draft Sales Invoice with the settings and  *)
(* the engine it is validated with, or an E Invoice Import record with the *)
(* host records its passes read.                                           *)
(***************************************************************************)
SettingsOptions ==
    {before_validate([validate_sales_invoice_on_save |-> on_save,
                      validate_sales_invoice_on_submit |-> on_submit,
                      error_action_on_save |-> action_on_save,
                      error_action_on_submit |-> action_on_submit]) :
        on_save \in {0, 1}, on_submit \in {0, 1},
        action_on_save \in ErrorActions, action_on_submit \in ErrorActions}

\* the fields of a Sales Invoice that validate_doc reads and writes
BaseSalesInvoice ==
    [name |-> "SINV-2026-0003", docstatus |-> Draft, einvoice_profile |-> XRECHNUNG,
     generation |-> "ok", taxes |-> <<>>, payment_schedule |-> <<>>, discount_amount |-> 0,
     posting_date |-> Value(760), einvoice_is_correct |-> 0, validation_errors |-> "",
     validation_warnings |-> ""]

ProfileValues == Profiles \cup {None}

\* validation on save and on submit, with a warning on save and an error on
\* submit
StrictSettings ==
    [validate_sales_invoice_on_save |-> 1, validate_sales_invoice_on_submit |-> 1,
     error_action_on_save |-> "Warning Message", error_action_on_submit |-> "Error Message"]

\* ---- the engine varies ----
InitEngine ==
    /\ sinv = BaseSalesInvoice
    /\ engine \in Engines
    /\ settings = StrictSettings

\* ---- the settings and the generation vary ----
FailingEngines ==
    {[x \in Stylesheets |-> CleanReport],
     [x \in Stylesheets |-> Raises],
     [x \in Stylesheets |->
         [CleanReport EXCEPT !.failed_asserts = <<svrl_text(x, 1), svrl_text(x, 2)>>]]}

InitSettings ==
    /\ \E generation \in {"ok", "raises"} :
        sinv = [BaseSalesInvoice EXCEPT !.generation = generation]
    /\ engine \in FailingEngines
    /\ settings \in SettingsOptions

\* ---- the rows of the form vary ----
FormTaxes ==
    {<<>>, <<[charge_type |-> "Actual"]>>,
     <<[charge_type |-> "On Item Quantity"], [charge_type |-> "On Net Total"]>>}

FormSchedules ==
    {<<>>,
     <<[discount_date |-> Value(750), mode_of_payment |-> "Wire Transfer"]>>,
     <<[discount_date |-> Value(770), mode_of_payment |-> "Wire Transfer"],
       [discount_date |-> NoValue, mode_of_payment |-> "Cash"]>>}

InitForm ==
    /\ \E taxes \in FormTaxes, payment_schedule \in FormSchedules,
          discount_amount \in {0, 5000} :
        sinv = [BaseSalesInvoice EXCEPT !.taxes = taxes,
                                        !.payment_schedule = payment_schedule,
                                        !.discount_amount = discount_amount]
    /\ engine = [x \in Stylesheets |-> CleanReport]
    /\ settings = StrictSettings

InitValidate ==
    /\ InitEngine \/ InitSettings \/ InitForm
    /\ vres = NoResult
    /\ IdleImport

\* what one run of validate_doc did
Outcome(event, r) ==
    [op |-> "validate_doc", event |-> event, doc |-> r.doc, msgs |-> r.msgs,
     raised |-> r.raised, log |-> r.log, evaluated |-> r.evaluated,
     validated |-> r.validated]

\* a draft is saved: validate_doc runs with docstatus 0; a raise aborts the
\* save and the stored document stays as it was
SaveInvoice ==
    /\ sinv.name # None
    /\ sinv.docstatus = Draft
    /\ LET r == validate_doc(sinv, "validate", settings, engine)
       IN  /\ vres' = Outcome("validate", r)
           /\ sinv' = IF r.raised THEN sinv ELSE r.doc
    /\ UNCHANGED <<settings, engine, varsImport, varsProfile, varsCodes, code_db, varsGen>>

\* a draft is submitted: validate_doc runs with docstatus 1
SubmitInvoice ==
    /\ sinv.name # None
    /\ sinv.docstatus = Draft
    /\ LET r == validate_doc([sinv EXCEPT !.docstatus = Submitted], "validate", settings, engine)
       IN  /\ vres' = Outcome("validate", r)
           /\ sinv' = IF r.raised THEN sinv ELSE r.doc
    /\ UNCHANGED <<settings, engine, varsImport, varsProfile, varsCodes, code_db, varsGen>>

\* the profile of a draft is changed in the form
SelectProfile ==
    /\ sinv.name # None
    /\ sinv.docstatus = Draft
    /\ \E value \in ProfileValues :
        /\ value # sinv.einvoice_profile
        /\ sinv' = [sinv EXCEPT !.einvoice_profile = value]
    /\ UNCHANGED <<settings, vres, engine, varsImport, varsProfile, varsCodes, code_db, varsGen>>

(***************************************************************************)
(* e_invoice_import.py: EInvoiceImport                                     *)
(***************************************************************************)
\* str(element) of a drafthorse element: the empty string for an unset one
str(value) == IF value = None THEN "" ELSE value

\* str.lower() of the country ids the model uses
lower(text) ==
    CASE text = "DE" -> "de"
      [] text = "FR" -> "fr"
      [] OTHER -> text

\* flt_or_none(value): the number, None for an unset element
flt_or_none(value) == value

\* frappe.db.exists("Supplier", name)
supplier_exists(h, name) == \E s \in h.suppliers : s.name = name

\* frappe.db.get_value("Supplier", {"tax_id": tax_id}, "name"): the name of
\* the supplier with that tax id, None when there is none
supplier_by_tax_id(h, tax_id) ==
    IF \E s \in h.suppliers : s.tax_id = tax_id
    THEN (CHOOSE s \in h.suppliers : s.tax_id = tax_id).name
    ELSE None

\* frappe.db.get_value("Country", {"code": code}, "name")
country_by_code(h, code) == IF code \in DOMAIN h.countries THEN h.countries[code] ELSE None

\* EInvoiceImport.parse_address: the five fields set for `prefix`
parse_address(h, address) ==
    [city |-> str(address.city_name),
     address_line_1 |-> str(address.line_one),
     address_line_2 |-> str(address.line_two),
     postcode |-> str(address.postcode),
     country |-> str(country_by_code(h, lower(str(address.country_id))))]

\* EInvoiceImport.parse_seller
parse_seller(self, h, seller) ==
    [self EXCEPT
        !.seller_name = str(seller.name),
        !.seller_tax_id = IF Len(seller.tax_registrations) > 0
                          THEN seller.tax_registrations[1][2] ELSE None,
        !.seller_electronic_address = str(seller.electronic_address[2]),
        !.seller_electronic_address_scheme = str(seller.electronic_address[1]),
        !.seller_address = parse_address(h, seller.address)]

\* EInvoiceImport.parse_buyer
parse_buyer(self, h, buyer) ==
    [self EXCEPT
        !.buyer_name = str(buyer.name),
        !.buyer_electronic_address = str(buyer.electronic_address[2]),
        !.buyer_electronic_address_scheme = str(buyer.electronic_address[1]),
        !.buyer_address = parse_address(h, buyer.address)]

\* len(product_name_full) > 140 and product_name_full[:140] for the product
\* names the model uses: one name is longer than 140 characters
LongNameCut == "Oak table, solid, oiled, 180 x 90 cm (the first 140 characters)"
LongNameRest == " with two extension leaves (the characters after the first 140)"
LongName == LongNameCut \o LongNameRest
longer_than_140(name) == name = LongName
first_140(name) == IF name = LongName THEN LongNameCut ELSE name

folded_description_remainder(product_name_full, product_description) ==
    LongNameRest \o " | " \o product_description

\* item.product_description of a name of more than 140 characters
folded_description(product_name_full, product_description) ==
    product_name_full \o " | " \o product_description

\* li.agreement.net.basis_quantity._amount or "1"
basis_quantity_of(li) ==
    IF "basis_quantity" \in DOMAIN li /\ li.basis_quantity # NoValue
    THEN li.basis_quantity[1] ELSE 1

\* EInvoiceImport.parse_line_item: the row appended to self.items
parse_line_item(h, li) ==
    LET product_name_full == str(li.name)
        product_description == str(li.description)
        item_code == str(li.buyer_assigned_id)
    IN  [product_name |-> IF longer_than_140(product_name_full)
                          THEN first_140(product_name_full) ELSE product_name_full,
         product_description |->
            IF longer_than_140(product_name_full)
            THEN folded_description(product_name_full, product_description)
            ELSE product_description,
         seller_product_id |-> str(li.seller_assigned_id),
         item |-> IF truthy(item_code) /\ item_code \in DOMAIN h.items THEN item_code ELSE None,
         billed_quantity |-> flt_or_none(Value(li.billed_quantity[1])),
         unit_code |-> str(li.billed_quantity[2]),
         net_rate |-> IF li.net_amount = NoValue THEN NoValue
                      ELSE Value(li.net_amount[1] \div basis_quantity_of(li)),
         tax_rate |-> flt_or_none(li.rate_applicable_percent),
         total_amount |-> flt_or_none(li.total_amount),
         uom |-> None,
         po_detail |-> None]

\* EInvoiceImport.parse_tax: the row appended to self.taxes
parse_tax(tax) ==
    [basis_amount |-> flt_or_none(tax.basis_amount),
     rate_applicable_percent |-> flt_or_none(tax.rate_applicable_percent),
     calculated_amount |-> flt_or_none(tax.calculated_amount)]

\* parse_payment_term: the loop over term.partial_amount.children from row i
\* on; a row is a tuple (amount, currency) or a bare amount
RECURSIVE partial_amount_from(_, _, _)
partial_amount_from(rows, currency, i) ==
    IF i > Len(rows) THEN NoValue
    ELSE IF rows[i].is_tuple
         THEN IF rows[i].currency = currency
              THEN Value(rows[i].amount)
              ELSE partial_amount_from(rows, currency, i + 1)
         ELSE Value(rows[i].amount)

\* EInvoiceImport.parse_payment_term
parse_payment_term(self, term) ==
    IF Len(term.partial_amount) = 0
    THEN [self EXCEPT !.due_date = term.due]
    ELSE [self EXCEPT !.payment_terms = Append(@,
            [due |-> term.due,
             partial_amount |-> partial_amount_from(term.partial_amount, self.currency, 1),
             description |-> term.description,
             discount_basis_date |-> term.discount_terms.basis_date_time,
             discount_calculation_percent |->
                IF term.discount_terms.calculation_percent # NoValue
                   /\ term.discount_terms.calculation_percent # Value(0)
                THEN term.discount_terms.calculation_percent ELSE NoValue,
             discount_actual_amount |->
                IF term.discount_terms.actual_amount # NoValue
                   /\ term.discount_terms.actual_amount # Value(0)
                THEN term.discount_terms.actual_amount ELSE NoValue])]

\* parse_monetary_summation: the loop over tax_total_other_currency; the
\* first entry without currency or in the currency of the record, `before`
\* when there is none
RECURSIVE tax_total_from(_, _, _, _)
tax_total_from(children, currency, before, i) ==
    IF i > Len(children) THEN before
    ELSE IF children[i][2] = None \/ children[i][2] = currency
         THEN flt_or_none(Value(children[i][1]))
         ELSE tax_total_from(children, currency, before, i + 1)

parse_monetary_summation_basis_as_grand_total(self, summation) ==
    [self EXCEPT
        !.line_total = flt_or_none(summation.line_total),
        !.allowance_total = flt_or_none(summation.allowance_total),
        !.charge_total = flt_or_none(summation.charge_total),
        !.tax_basis_total = flt_or_none(summation.grand_total),
        !.tax_total = tax_total_from(summation.tax_total_other_currency, self.currency, @, 1),
        !.grand_total = flt_or_none(summation.grand_total),
        !.total_prepaid = flt_or_none(summation.prepaid_total),
        !.due_payable = flt_or_none(summation.due_amount)]

\* EInvoiceImport.parse_monetary_summation
parse_monetary_summation(self, summation) ==
    [self EXCEPT
        !.line_total = flt_or_none(summation.line_total),
        !.allowance_total = flt_or_none(summation.allowance_total),
        !.charge_total = flt_or_none(summation.charge_total),
        !.tax_basis_total = flt_or_none(summation.tax_basis_total),
        !.tax_total = tax_total_from(summation.tax_total_other_currency, self.currency, @, 1),
        !.grand_total = flt_or_none(summation.grand_total),
        !.total_prepaid = flt_or_none(summation.prepaid_total),
        !.due_payable = flt_or_none(summation.due_amount)]

\* `text or None`
or_none(text) == IF truthy(text) THEN text ELSE None

\* EInvoiceImport.parse_bank_details
parse_bank_details(self, payment_means) ==
    [self EXCEPT
        !.payee_iban = or_none(payment_means.payee_account.iban),
        !.payee_account_name =
            IF ge(self.profile, EN16931)
            THEN or_none(payment_means.payee_account.account_name) ELSE @,
        !.payee_bic =
            IF ge(self.profile, EN16931)
            THEN or_none(payment_means.payee_institution.bic) ELSE @]

\* EInvoiceImport.parse_billing_period
parse_billing_period(self, period) ==
    [self EXCEPT !.billing_period_start = period.start, !.billing_period_end = period.end]

\* EInvoiceImport._validate_schematron: one call of get_validation_errors
\* for the profile of the record; `alert` is the message shown when the
\* engine raises
validate_schematron(self, eng) ==
    LET reset == [self EXCEPT !.validation_errors = "", !.validation_warnings = ""]
        result == get_validation_errors(eng, self.profile)
    IN  IF result.raises
        THEN [doc |-> reset,
              alert |-> <<"Could not validate E Invoice schematron. See Error Log for details.">>,
              evaluated |-> <<PROFILE_TO_XSL[self.profile]>>]
        ELSE [doc |-> [reset EXCEPT
                         !.e_invoice_is_correct = IF any(result.errors) THEN 0 ELSE 1,
                         !.validation_errors =
                             IF any(result.errors) THEN @ \o join(result.errors) ELSE @,
                         !.validation_warnings =
                             IF any(result.warnings) THEN @ \o join(result.warnings) ELSE @],
              alert |-> <<>>,
              evaluated |-> <<PROFILE_TO_XSL[self.profile]>>]

\* str(doc.header.issue_date_time)
date_str(date) == IF date = NoValue THEN "" ELSE ToString(date[1])

\* the loops of read_values_from_einvoice over the line items, the trade
\* taxes and the payment terms of the document
RECURSIVE parsed_items(_, _)
parsed_items(h, children) ==
    IF children = <<>> THEN <<>>
    ELSE <<parse_line_item(h, Head(children))>> \o parsed_items(h, Tail(children))

RECURSIVE parsed_taxes(_)
parsed_taxes(children) ==
    IF children = <<>> THEN <<>>
    ELSE <<parse_tax(Head(children))>> \o parsed_taxes(Tail(children))

RECURSIVE parsed_terms(_, _)
parsed_terms(self, children) ==
    IF children = <<>> THEN self
    ELSE parsed_terms(parse_payment_term(self, Head(children)), Tail(children))

\* get_xml_bytes and DrafthorseDocument.parse: the file is an .xml file or
\* a .pdf file with an embedded document, and the document is well-formed
readable(file) ==
    /\ file.suffix \in {".xml", ".pdf"}
    /\ file.suffix = ".pdf" => file.xml # "none"
    /\ file.xml = "well-formed"

\* read_values_from_einvoice after the schematron check: the header, the
\* parties, the buyer's order reference, the rows and the totals of the
\* document `tree` are written to the record `checked.doc`
read_document(checked, h, tree) ==
    LET header == [checked.doc EXCEPT !.id = str(tree.header.id),
                                      !.issue_date = date_str(tree.header.issue_date_time),
                                      !.currency = str(tree.currency_code)]
        buyer_reference == tree.buyer_order.issuer_assigned_id
        ordered == [parse_buyer(parse_seller(header, h, tree.seller), h, tree.buyer) EXCEPT
                       !.purchase_order =
                           IF ~truthy(@) /\ truthy(buyer_reference)
                              /\ buyer_reference \in DOMAIN h.purchase_orders
                           THEN buyer_reference ELSE @]
        rows == parsed_terms([ordered EXCEPT !.items = parsed_items(h, tree.items),
                                             !.taxes = parsed_taxes(tree.trade_tax),
                                             !.payment_terms = <<>>],
                             tree.terms)
    IN  [raised |-> FALSE,
         doc |-> parse_billing_period(
                     parse_bank_details(
                         parse_monetary_summation(rows, tree.monetary_summation),
                         tree.payment_means),
                     tree.period),
         alert |-> checked.alert,
         evaluated |-> checked.evaluated]

\* EInvoiceImport.read_values_from_einvoice.  It raises for a file that
\* cannot be read and for a guideline that names no profile
read_values_from_einvoice(self, h, eng) ==
    LET file == h.files[self.einvoice]
        value == get_profile(file.tree.context.guideline_parameter)
    IN  IF ~readable(file) \/ value = None
        THEN [raised |-> TRUE, doc |-> self, alert |-> <<>>, evaluated |-> <<>>]
        ELSE read_document(validate_schematron([self EXCEPT !.profile = value], eng),
                           h, file.tree)

\* EInvoiceImport.guess_supplier
guess_supplier(self, h) ==
    IF truthy(self.supplier) THEN self
    ELSE LET named == IF supplier_exists(h, self.seller_name)
                      THEN [self EXCEPT !.supplier = self.seller_name]
                      ELSE self
         IN  IF truthy(self.seller_tax_id)
             THEN [named EXCEPT !.supplier = supplier_by_tax_id(h, self.seller_tax_id)]
             ELSE named

\* EInvoiceImport.guess_company
guess_company(self, h) ==
    IF truthy(self.company) THEN self
    ELSE IF self.buyer_name \in h.companies
    THEN [self EXCEPT !.company = self.buyer_name]
    ELSE [self EXCEPT !.company = h.default_company]

\* erpnext get_docnames_for(code_list, "UOM", code)
get_docnames_for(h, code_list, code) ==
    IF <<code_list, code>> \in DOMAIN h.uom_docnames THEN h.uom_docnames[<<code_list, code>>]
    ELSE <<>>

\* guess_uom for one row
guess_uom_of(h, row) ==
    IF truthy(row.uom) THEN row
    ELSE IF truthy(row.unit_code)
    THEN LET rec20_3 == get_docnames_for(h, "urn:xoev-de:kosit:codeliste:rec20_3", row.unit_code)
             rec21_3 == get_docnames_for(h, "urn:xoev-de:kosit:codeliste:rec21_3", row.unit_code)
         IN  IF Len(rec20_3) > 0 THEN [row EXCEPT !.uom = rec20_3[1]]
             ELSE IF Len(rec21_3) > 0 THEN [row EXCEPT !.uom = rec21_3[1]]
             ELSE row
    ELSE IF truthy(row.item)
    THEN [row EXCEPT !.uom = IF truthy(h.items[row.item].purchase_uom)
                             THEN h.items[row.item].purchase_uom
                             ELSE h.items[row.item].stock_uom]
    ELSE row

\* EInvoiceImport.guess_uom
guess_uom(self, h) ==
    [self EXCEPT !.items = [i \in 1..Len(self.items) |-> guess_uom_of(h, self.items[i])]]

\* frappe.db.get_value("Item Supplier", {supplier, supplier_part_no}, "parent")
item_of_supplier(h, supplier, supplier_part_no) ==
    IF \E r \in h.item_suppliers : r.supplier = supplier /\ r.supplier_part_no = supplier_part_no
    THEN (CHOOSE r \in h.item_suppliers :
              r.supplier = supplier /\ r.supplier_part_no = supplier_part_no).parent
    ELSE None

\* guess_item_code for one row
guess_item_code_of(self, h, row) ==
    IF truthy(row.item) THEN row
    ELSE IF truthy(row.seller_product_id) /\ truthy(self.supplier)
    THEN [row EXCEPT !.item = item_of_supplier(h, self.supplier, row.seller_product_id)]
    ELSE row

\* EInvoiceImport.guess_item_code
guess_item_code(self, h) ==
    [self EXCEPT !.items = [i \in 1..Len(self.items) |-> guess_item_code_of(self, h, self.items[i])]]

\* guess_po_details: po_items, one entry per row of the purchase order
po_items_of(purchase_order) ==
    [i \in 1..Len(purchase_order) |->
        [name |-> purchase_order[i].name,
         item_code |-> purchase_order[i].item_code,
         unbilled_amount |-> purchase_order[i].amount - purchase_order[i].billed_amt]]

\* frappe.db.exists("Purchase Order Item", {"name": po_detail, "parent": purchase_order})
po_item_exists(h, po_detail, purchase_order) ==
    \E i \in 1..Len(h.purchase_orders[purchase_order]) :
        h.purchase_orders[purchase_order][i].name = po_detail

\* the inner loop `for po_row in po_items`: the position of the first order
\* line with the item of the import line and enough unbilled amount, 0 when
\* no order line takes it
first_fit_last(po_items, pi_row) ==
    LET fits == {i \in 1..Len(po_items) :
                    po_items[i].item_code = pi_row.item
                    /\ po_items[i].unbilled_amount >= pi_row.total_amount[1]}
    IN  IF fits = {} THEN 0 ELSE CHOOSE i \in fits : \A j \in fits : j <= i

first_fit(po_items, pi_row) ==
    LET fits == {i \in 1..Len(po_items) :
                    po_items[i].item_code = pi_row.item
                    /\ po_items[i].unbilled_amount >= pi_row.total_amount[1]}
    IN  IF fits = {} THEN 0 ELSE CHOOSE i \in fits : \A j \in fits : i <= j

\* the outer loop `for pi_row in self.items` from row n on
RECURSIVE allocate_from(_, _, _, _, _)
allocate_from(h, purchase_order, items, po_items, n) ==
    IF n > Len(items) THEN items
    ELSE IF truthy(items[n].po_detail) /\ po_item_exists(h, items[n].po_detail, purchase_order)
    THEN allocate_from(h, purchase_order, items, po_items, n + 1)
    ELSE LET k == first_fit(po_items, items[n])
         IN  IF k = 0
             THEN allocate_from(h, purchase_order,
                                [items EXCEPT ![n].po_detail = None], po_items, n + 1)
             ELSE allocate_from(h, purchase_order,
                                [items EXCEPT ![n].po_detail = po_items[k].name],
                                [po_items EXCEPT ![k].unbilled_amount =
                                                     @ - items[n].total_amount[1]],
                                n + 1)

\* EInvoiceImport.guess_po_details
guess_po_details(self, h) ==
    IF ~truthy(self.purchase_order)
    THEN [self EXCEPT !.items = [i \in 1..Len(self.items) |->
                                    [self.items[i] EXCEPT !.po_detail = None]]]
    ELSE [self EXCEPT !.items =
            allocate_from(h, self.purchase_order, self.items,
                          po_items_of(h.purchase_orders[self.purchase_order]), 1)]

\* self.has_value_changed("einvoice"): the value differs from the stored one
has_value_changed(self) == self.einvoice # self.stored_einvoice

\* before_save once the file was read: the four guessing passes over the
\* record that was read, then guess_po_details
guessing_passes(self, h, read) ==
    IF read.raised
    THEN [raised |-> TRUE, doc |-> self, alert |-> <<>>, evaluated |-> <<>>,
          passes |-> FALSE]
    ELSE [raised |-> FALSE,
          doc |-> guess_po_details(
                      guess_item_code(
                          guess_uom(guess_company(guess_supplier(read.doc, h), h), h), h),
                      h),
          alert |-> read.alert, evaluated |-> read.evaluated, passes |-> TRUE]

before_save_every_pass(self, h, eng) ==
    IF truthy(self.einvoice)
    THEN guessing_passes(self, h, read_values_from_einvoice(self, h, eng))
    ELSE [raised |-> FALSE, doc |-> guess_po_details(self, h), alert |-> <<>>,
          evaluated |-> <<>>, passes |-> FALSE]

\* EInvoiceImport.before_save; `passes` tells whether the file was read and
\* the four guessing passes ran
before_save(self, h, eng) ==
    IF truthy(self.einvoice) /\ has_value_changed(self)
    THEN guessing_passes(self, h, read_values_from_einvoice(self, h, eng))
    ELSE [raised |-> FALSE, doc |-> guess_po_details(self, h), alert |-> <<>>,
          evaluated |-> <<>>, passes |-> FALSE]

\* EInvoiceImport.validate: raises for a second import of the same invoice
\* of the same supplier
validate_import(self, h) ==
    /\ truthy(self.id)
    /\ truthy(self.supplier)
    /\ h.check_supplier_invoice_uniqueness
    /\ \E other \in h.other_imports : other.id = self.id /\ other.supplier = self.supplier

\* EInvoiceImport.before_submit: raises unless supplier, company and the
\* item of every line are set
before_submit(self) ==
    \/ ~truthy(self.supplier)
    \/ ~truthy(self.company)
    \/ ~(Len(self.items) > 0 /\ \A i \in 1..Len(self.items) : truthy(self.items[i].item))

\* EInvoiceImport.add_seller_product_ids_to_items: every line notes its
\* seller product id at its Item for the supplier; the row method it calls
\* belongs to the E Invoice Item doctype
add_seller_product_ids_to_items(self, h) ==
    [h EXCEPT !.item_suppliers =
        @ \cup {[supplier |-> self.supplier,
                 supplier_part_no |-> self.items[i].seller_product_id,
                 parent |-> self.items[i].item] :
                    i \in {n \in 1..Len(self.items) :
                              /\ truthy(self.items[n].seller_product_id)
                              /\ item_of_supplier(h, self.supplier,
                                                  self.items[n].seller_product_id) = None}}]

(***************************************************************************)
(* SpecSite, the import: records, files and host data                      *)
(***************************************************************************)
MaxLines == 2

EmptyImportAddress ==
    [city |-> None, address_line_1 |-> None, address_line_2 |-> None, postcode |-> None,
     country |-> None]

\* a new E Invoice Import
NewImport ==
    [name |-> "EINV-IMP-0001", docstatus |-> Draft, einvoice |-> None, stored_einvoice |-> None,
     profile |-> None, id |-> None, issue_date |-> None, currency |-> None,
     seller_name |-> None, seller_tax_id |-> None, seller_electronic_address |-> None,
     seller_electronic_address_scheme |-> None, seller_address |-> EmptyImportAddress,
     buyer_name |-> None, buyer_electronic_address |-> None,
     buyer_electronic_address_scheme |-> None, buyer_address |-> EmptyImportAddress,
     supplier |-> None, company |-> None, purchase_order |-> None,
     items |-> <<>>, taxes |-> <<>>, payment_terms |-> <<>>, due_date |-> NoValue,
     line_total |-> Value(0), allowance_total |-> Value(0), charge_total |-> Value(0),
     tax_basis_total |-> Value(0), tax_total |-> Value(0), grand_total |-> Value(0),
     total_prepaid |-> Value(0), due_payable |-> Value(0),
     payee_iban |-> None, payee_account_name |-> None, payee_bic |-> None,
     billing_period_start |-> NoValue, billing_period_end |-> NoValue,
     e_invoice_is_correct |-> 0, validation_errors |-> "", validation_warnings |-> ""]

\* a line of an incoming document
IncomingLine(line_id, buyer_assigned_id, seller_assigned_id, amount) ==
    [line_id |-> line_id, name |-> "Oak table", seller_assigned_id |-> seller_assigned_id,
     buyer_assigned_id |-> buyer_assigned_id, description |-> "Solid oak",
     net_amount |-> Value(amount), basis_quantity |-> NoValue,
     billed_quantity |-> <<1000, "H87">>,
     delivery_note |-> [issuer_assigned_id |-> None, issue_date_time |-> NoValue],
     type_code |-> "VAT", category_code |-> "S", rate_applicable_percent |-> Value(19),
     exemption_reason_code |-> None, total_amount |-> Value(amount)]

\* an incoming document: an invoice of Acme GmbH to Example GmbH
IncomingDocument ==
    [Document EXCEPT
        !.context.guideline_parameter = PROFILE_TO_GUIDELINE[EN16931],
        !.header = [id |-> "RE-2026-17", type_code |-> "380",
                    issue_date_time |-> Value(20260115), notes |-> <<>>],
        !.seller = [EmptyParty EXCEPT
                       !.name = "Acme GmbH",
                       !.tax_registrations = <<<<"VA", "DE111111111">>>>,
                       !.electronic_address = <<"EM", "billing@acme.example">>,
                       !.address = [line_one |-> "Werkstr. 2", line_two |-> None,
                                    postcode |-> "20095", city_name |-> "Hamburg",
                                    country_id |-> "DE"]],
        !.buyer = [EmptyParty EXCEPT
                      !.name = "Example GmbH",
                      !.address = [line_one |-> "Hauptstr. 1", line_two |-> None,
                                   postcode |-> "10115", city_name |-> "Berlin",
                                   country_id |-> "DE"]],
        !.items = <<IncomingLine("1", "TABLE-OAK", "A-100", 60000)>>,
        !.trade_tax = <<[calculated_amount |-> Value(11400), type_code |-> "VAT",
                         category_code |-> "S", rate_applicable_percent |-> Value(19),
                         basis_amount |-> Value(60000), exemption_reason_code |-> None]>>,
        !.currency_code = "EUR",
        !.terms = <<[due |-> Value(20260214), description |-> "30 days net",
                     partial_amount |-> <<>>,
                     discount_terms |-> [basis_date_time |-> NoValue,
                                         calculation_percent |-> NoValue,
                                         actual_amount |-> NoValue]]>>,
        !.payment_means = [type_code |-> "58", information |-> None,
                           payee_account |-> [iban |-> "DE02120300000000202051",
                                              account_name |-> "Acme GmbH"],
                           payee_institution |-> [bic |-> "BYLADEM1001"]],
        !.monetary_summation =
            [EmptySummation EXCEPT
                !.line_total = Value(60000), !.tax_basis_total = Value(60000),
                !.tax_total_other_currency = <<<<11400, "EUR">>>>,
                !.grand_total = Value(71400), !.due_amount = Value(71400)]]

XmlFile(tree) == [suffix |-> ".xml", xml |-> "well-formed", tree |-> tree]

\* host records read by the import
BaseHost ==
    [suppliers |-> {[name |-> "Acme GmbH", tax_id |-> "DE111111111"],
                    [name |-> "Other KG", tax_id |-> "DE222222222"]},
     companies |-> {"Example GmbH"},
     default_company |-> "Default GmbH",
     items |-> ("TABLE-OAK" :> [stock_uom |-> "Nos", purchase_uom |-> None])
               @@ ("CHAIR-OAK" :> [stock_uom |-> "Nos", purchase_uom |-> "Set"]),
     item_suppliers |-> {[supplier |-> "Acme GmbH", supplier_part_no |-> "A-200",
                          parent |-> "CHAIR-OAK"]},
     uom_docnames |-> (<<"urn:xoev-de:kosit:codeliste:rec20_3", "H87">> :> <<"Nos">>),
     purchase_orders |-> <<>>,
     countries |-> ("de" :> "Germany"),
     check_supplier_invoice_uniqueness |-> TRUE,
     other_imports |-> {[id |-> "RE-2026-17", supplier |-> "Preset AG"]},
     files |-> ("/private/files/invoice.xml" :> XmlFile(IncomingDocument))]

BrokenFiles ==
    ("/private/files/scan.pdf" :> [suffix |-> ".pdf", xml |-> "none", tree |-> Document])
    @@ ("/private/files/broken.xml" :> [suffix |-> ".xml", xml |-> "malformed", tree |-> Document])
    @@ ("/private/files/notes.txt" :> [suffix |-> ".txt", xml |-> "none", tree |-> Document])

\* ---- the guideline of the document and the engine vary ----
InitImportEngine ==
    /\ engine \in Engines
    /\ \E first \in {BASIC, EXTENDED}, guideline \in GuidelineInputs :
        host = [BaseHost EXCEPT !.files =
                  ("/private/files/first.xml" :>
                       XmlFile([IncomingDocument EXCEPT
                                   !.context.guideline_parameter = PROFILE_TO_GUIDELINE[first],
                                   !.header.id = "RE-2026-16",
                                   !.items[1].name = LongName]))
                  @@ ("/private/files/invoice.xml" :>
                       XmlFile([IncomingDocument EXCEPT
                                   !.context.guideline_parameter = guideline]))]
    /\ einv = NewImport

\* ---- the seller, the buyer and the files vary ----
InitImportParties ==
    /\ engine = [x \in Stylesheets |-> CleanReport]
    /\ \E seller_name \in {"Acme GmbH", "Unknown Ltd"},
          tax_registrations \in {<<>>, <<<<"VA", "DE111111111">>>>, <<<<"VA", "DE222222222">>>>,
                                 <<<<"VA", "DE999999999">>>>},
          buyer_name \in {"Example GmbH", "Elsewhere GmbH"} :
        host = [BaseHost EXCEPT !.files =
                  ("/private/files/invoice.xml" :>
                       XmlFile([IncomingDocument EXCEPT
                                   !.seller.name = seller_name,
                                   !.seller.tax_registrations = tax_registrations,
                                   !.buyer.name = buyer_name]))
                  @@ BrokenFiles]
    /\ \E supplier \in {None, "Preset AG"}, company \in {None, "Example GmbH"} :
        einv = [NewImport EXCEPT !.supplier = supplier, !.company = company]

\* ---- the lines and the purchase order vary ----
LineOptions ==
    {<<"TABLE-OAK", 40000>>, <<"TABLE-OAK", 60000>>, <<"CHAIR-OAK", 60000>>}

IncomingLines ==
    {[i \in 1..Len(lines) |-> IncomingLine(ToString(i), lines[i][1], "A-100", lines[i][2])] :
        lines \in UNION {[1..n -> LineOptions] : n \in 1..MaxLines}}

OrderOptions ==
    {<<[name |-> "po-row-1", item_code |-> "TABLE-OAK", amount |-> 100000, billed_amt |-> 0]>>,
     <<[name |-> "po-row-1", item_code |-> "TABLE-OAK", amount |-> 50000, billed_amt |-> 0],
       [name |-> "po-row-2", item_code |-> "TABLE-OAK", amount |-> 100000, billed_amt |-> 0]>>,
     <<[name |-> "po-row-1", item_code |-> "CHAIR-OAK", amount |-> 60000, billed_amt |-> 0],
       [name |-> "po-row-2", item_code |-> "TABLE-OAK", amount |-> 120000,
        billed_amt |-> 40000]>>}

InitImportOrder ==
    /\ engine = [x \in Stylesheets |-> CleanReport]
    /\ \E lines \in IncomingLines, po_rows \in OrderOptions, po_no \in {None, "PO-0001"} :
        host = [BaseHost EXCEPT
                  !.purchase_orders = ("PO-0001" :> po_rows),
                  !.files = ("/private/files/invoice.xml" :>
                                 XmlFile([IncomingDocument EXCEPT
                                             !.items = lines,
                                             !.buyer_order.issuer_assigned_id = po_no]))]
    /\ einv = NewImport

InitImport ==
    /\ InitImportEngine \/ InitImportParties \/ InitImportOrder
    /\ settings = [validate_sales_invoice_on_save |-> 0]
    /\ sinv = [name |-> None]
    /\ vres = NoResult

InitSite ==
    /\ InitValidate \/ InitImport
    /\ IdleProfile
    /\ IdleCodes
    /\ IdleGen

varsOther == <<varsProfile, varsCodes, code_db, varsGen>>

\* a file is attached to a draft in the form
AttachFile ==
    /\ einv.name # None
    /\ einv.docstatus = Draft
    /\ \E url \in DOMAIN host.files :
        /\ url # einv.einvoice
        /\ einv' = [einv EXCEPT !.einvoice = url]
    /\ UNCHANGED <<host, vres, settings, sinv, engine, varsOther>>

\* the purchase order of a draft is chosen or cleared in the form
SelectPurchaseOrder ==
    /\ einv.name # None
    /\ einv.docstatus = Draft
    /\ \E purchase_order \in DOMAIN host.purchase_orders \cup {None} :
        /\ purchase_order # einv.purchase_order
        /\ einv' = [einv EXCEPT !.purchase_order = purchase_order]
    /\ UNCHANGED <<host, vres, settings, sinv, engine, varsOther>>

\* the order line of an unassigned line of a draft with a purchase order is
\* chosen in the form: a line of that order, or one that is not of that order
AllocateLine ==
    /\ einv.name # None
    /\ einv.docstatus = Draft
    /\ \E n \in 1..Len(einv.items), po_detail \in {"po-row-1", "po-row-9"} :
        /\ truthy(einv.purchase_order)
        /\ einv.items[n].po_detail = None
        /\ einv' = [einv EXCEPT !.items[n].po_detail = po_detail]
    /\ UNCHANGED <<host, vres, settings, sinv, engine, varsOther>>

\* Document.save of a draft: validate, then before_save; a raise of either
\* aborts the save and the stored record stays as it was
saved_import(self, duplicate, r) ==
    IF duplicate \/ r.raised THEN self
    ELSE [r.doc EXCEPT !.stored_einvoice = r.doc.einvoice]

\* what one save of the import record did
ImportOutcome(self, duplicate, r) ==
    [op |-> "before_save", raised |-> duplicate \/ r.raised, before |-> self,
     after |-> saved_import(self, duplicate, r),
     alert |-> r.alert, evaluated |-> r.evaluated, passes |-> r.passes]

\* a draft is saved
SaveImport ==
    /\ einv.name # None
    /\ einv.docstatus = Draft
    /\ vres' = ImportOutcome(einv, validate_import(einv, host),
                             before_save(einv, host, engine))
    /\ einv' = vres'.after
    /\ UNCHANGED <<host, settings, sinv, engine, varsOther>>

\* a draft is submitted: validate, before_submit, then on_submit
SubmitImport ==
    /\ einv.name # None
    /\ einv.docstatus = Draft
    /\ LET raised == validate_import(einv, host) \/ before_submit(einv)
           after == IF raised THEN einv ELSE [einv EXCEPT !.docstatus = Submitted]
       IN  /\ vres' = [op |-> "submit", raised |-> raised, before |-> einv, after |-> after]
           /\ einv' = after
           /\ host' = IF raised THEN host ELSE add_seller_product_ids_to_items(einv, host)
    /\ UNCHANGED <<settings, sinv, engine, varsOther>>

\* a submitted record is saved again: frappe runs before_update_after_submit
\* and on_update_after_submit only, and EInvoiceImport defines neither
SaveSubmittedImport ==
    /\ einv.name # None
    /\ einv.docstatus = Submitted
    /\ vres' = [op |-> "update_after_submit", raised |-> FALSE, before |-> einv,
                after |-> einv]
    /\ UNCHANGED <<einv, host, settings, sinv, engine, varsOther>>

NextSite ==
    \/ SaveInvoice
    \/ SubmitInvoice
    \/ SelectProfile
    \/ AttachFile
    \/ SelectPurchaseOrder
    \/ AllocateLine
    \/ SaveImport
    \/ SubmitImport
    \/ SaveSubmittedImport

SpecSite == InitSite /\ [][NextSite]_vars

(***************************************************************************)
(* SpecGen: create_einvoice step by step, and the import of the document   *)
(* it generated                                                            *)
(***************************************************************************)
\* get_einvoice returns doc.serialize(schema=...) and the import reads the
\* bytes with DrafthorseDocument.parse(xml_bytes, strict=False): drafthorse
\* writes every element that is set as the text of its value and reads it
\* back as that value, so the file holds the tree of the document
serialize(d, p) == [XmlFile(d) EXCEPT !.xml =
                       IF get_drafthorse_schema(p) = None THEN "malformed" ELSE @]

CleanEngine == [x \in Stylesheets |-> CleanReport]
RaisingEngine == [x \in Stylesheets |-> Raises]

\* the generated document is attached to a new E Invoice Import of a host
\* and the record is saved
ImportGenerated ==
    /\ pc = "done"
    /\ \E eng \in {CleanEngine, RaisingEngine},
          h \in {[BaseHost EXCEPT
                     !.files = ("/private/files/generated.xml" :> serialize(doc, profile))]},
          self \in {[NewImport EXCEPT !.einvoice = "/private/files/generated.xml"]} :
        /\ host' = h
        /\ einv' = saved_import(self, validate_import(self, h), before_save(self, h, eng))
    /\ pc' = "imported"
    /\ UNCHANGED <<profile, invoice, site, doc, gen, code_db, varsProfile, varsCodes,
                   varsValidate, engine>>

NextGen ==
    \/ SetContext
    \/ SetHeader
    \/ SetSeller
    \/ SetBuyer
    \/ SetAgreement
    \/ AddLineItem
    \/ SetSellerOrder
    \/ AddTaxesAndCharges
    \/ AddEmptyTax
    \/ AddPayment
    \/ SetTotals
    \/ ImportGenerated

SpecGen == InitGen /\ [][NextGen]_vars

(***************************************************************************)
(* Claims on the validation                                                *)
(***************************************************************************)
\* the messages of the entries of a report that carry a text, in order
MessagesOf(texts) ==
    LET carried == SelectSeq(texts, LAMBDA t : t # None)
    IN  [i \in 1..Len(carried) |-> text_strip(carried[i])]

ErrorsOf(p) == MessagesOf(engine[PROFILE_TO_XSL[p]].failed_asserts)
WarningsOf(p) == MessagesOf(engine[PROFILE_TO_XSL[p]].successful_reports)

\* the lines of a stored text are the messages of `list`
StoredAs(text, list) == text = join(list)

\* validate_doc ran validate_einvoice on an invoice with a profile whose
\* document could be generated
Validated ==
    /\ vres.op = "validate_doc"
    /\ vres.validated
    /\ vres.doc.einvoice_profile \in Profiles
    /\ vres.doc.generation = "ok"

\* the engine raised in one of the passes validate_einvoice makes for p
EngineFails(p) ==
    \/ engine[PROFILE_TO_XSL[p]].raises
    \/ p = XRECHNUNG /\ engine[PROFILE_TO_XSL[EN16931]].raises

Imported == vres.op = "before_save" /\ ~vres.raised /\ vres.passes

\* C13: on import of a document whose guideline identifies XRECHNUNG both
\* the XRECHNUNG and the EN16931 rule sets are evaluated, the errors and
\* warnings of the record are the XRECHNUNG results followed by the EN16931
\* results, and e_invoice_is_correct is 1 only if both passes report no
\* error.
C13_ImportTwoPass ==
    (Imported /\ vres.after.profile = XRECHNUNG /\ ~EngineFails(XRECHNUNG)) =>
        /\ vres.evaluated = <<PROFILE_TO_XSL[XRECHNUNG], PROFILE_TO_XSL[EN16931]>>
        /\ StoredAs(vres.after.validation_errors,
                    ErrorsOf(XRECHNUNG) \o ErrorsOf(EN16931))
        /\ StoredAs(vres.after.validation_warnings,
                    WarningsOf(XRECHNUNG) \o WarningsOf(EN16931))
        /\ vres.after.e_invoice_is_correct = 1 => ErrorsOf(XRECHNUNG) \o ErrorsOf(EN16931) = <<>>

\* the file of the record saved last was new, could be read and named a
\* profile, and validate did not refuse the record
FileRead ==
    /\ vres.op = "before_save"
    /\ truthy(vres.before.einvoice)
    /\ has_value_changed(vres.before)
    /\ readable(host.files[vres.before.einvoice])
    /\ get_profile(host.files[vres.before.einvoice].tree.context.guideline_parameter) # None
    /\ ~validate_import(vres.before, host)

\* the record holds the values of the document of its file
Filled ==
    LET tree == host.files[vres.after.einvoice].tree
    IN  /\ vres.after.id = tree.header.id
        /\ vres.after.currency = tree.currency_code
        /\ vres.after.seller_name = tree.seller.name
        /\ Len(vres.after.items) = Len(tree.items)
        /\ Len(vres.after.taxes) = Len(tree.trade_tax)
        /\ vres.after.grand_total = tree.monetary_summation.grand_total
        /\ truthy(vres.after.company)

\* the engine raised while the file saved last was read: the save went
\* through and the record is filled
ImportContinues ==
    (FileRead /\ engine[PROFILE_TO_XSL[
                     get_profile(host.files[vres.before.einvoice].tree
                                     .context.guideline_parameter)]].raises) =>
        /\ ~vres.raised
        /\ vres.passes
        /\ vres.alert # <<>>
        /\ vres.after.stored_einvoice = vres.before.einvoice
        /\ Filled

\* the engine raised while a Sales Invoice was validated: the entry is
\* stored and logged
EntryReported ==
    (Validated /\ EngineFails(vres.doc.einvoice_profile)) =>
        /\ vres.log = <<CannotValidate>>
        /\ vres.doc.validation_errors = CannotValidate
        /\ vres.doc.einvoice_is_correct = 0

\* C14: a failure of the rule-evaluation engine never aborts the workflow:
\* on import the rest of the parse runs and fills the record, and on a save
\* or submit of a Sales Invoice validate_doc stores and logs the 'cannot
\* validate' entry and does not raise, whatever the error action is.
C14_EngineFailureNeverAborts ==
    /\ ImportContinues
    /\ EntryReported
    /\ (Validated /\ EngineFails(vres.doc.einvoice_profile)) => ~vres.raised

(***************************************************************************)
(* Claims on the passes of a save of an import record                      *)
(***************************************************************************)
\* a save went through whose file was the stored one
SavedUnchanged ==
    /\ vres.op = "before_save"
    /\ ~vres.raised
    /\ ~has_value_changed(vres.before)

\* the record with the order line of every line left out
WithoutOrderLines(self) ==
    [self EXCEPT !.items = [i \in 1..Len(self.items) |->
                               [self.items[i] EXCEPT !.po_detail = None]]]

\* a submitted record was saved and is as it was
SubmittedKept ==
    (vres.op \in {"before_save", "submit", "update_after_submit"}
        /\ vres.before.docstatus = Submitted) =>
        /\ vres.op = "update_after_submit"
        /\ vres.after = vres.before

\* C15 as stated: a save of a record whose file has not changed runs no
\* guessing pass, the purchase-order-line guessing included, and changes no
\* field of the record; and no pass changes a submitted record.
C15_NoPassOnUnchangedFile ==
    /\ SavedUnchanged => (~vres.passes /\ vres.after = vres.before)
    /\ SubmittedKept

\* C15: a save of a record whose file has not changed does not read the
\* file and runs none of the supplier, company, unit and item guessing
\* passes; no field other than the order line of the lines changes, and the
\* order lines are those guess_po_details gives for the record as it was;
\* and no pass changes a submitted record.
C15_OnlyOrderLinesOnUnchangedFile ==
    /\ SavedUnchanged =>
        /\ ~vres.passes
        /\ vres.evaluated = <<>>
        /\ WithoutOrderLines(vres.after) = WithoutOrderLines(vres.before)
        /\ \A n \in 1..Len(vres.after.items) :
            vres.after.items[n].po_detail # vres.before.items[n].po_detail =>
                \/ vres.after.items[n].po_detail = None
                \/ /\ truthy(vres.after.purchase_order)
                   /\ po_item_exists(host, vres.after.items[n].po_detail,
                                     vres.after.purchase_order)
    /\ SubmittedKept

\* a record with an unchanged file was saved after a purchase order was
\* chosen, and a line got its order line
C15_Witness ==
    /\ SavedUnchanged
    /\ truthy(vres.before.einvoice)
    /\ vres.before.supplier = "Acme GmbH"
    /\ vres.before.purchase_order = "PO-0001"
    /\ vres.before.items[1].po_detail = None
    /\ vres.after.items[1].po_detail = "po-row-1"

\* a submitted record was saved again
C15_SubmittedWitness ==
    /\ vres.op = "update_after_submit"
    /\ vres.before.docstatus = Submitted
    /\ Len(vres.before.items) = 2

\* the file was read for a record without a supplier
SupplierGuessed ==
    /\ Imported
    /\ ~truthy(vres.before.supplier)

\* C16: guess_supplier on a record without a supplier selects the supplier
\* whose name is the seller name when there is one; only when there is none
\* it looks the supplier up by the tax id of the seller; when neither
\* matches the supplier stays unset.  The tax-id lookup never replaces or
\* clears a name match.
C16_NameMatchFirst ==
    SupplierGuessed =>
        LET self == vres.after
        IN  IF supplier_exists(host, self.seller_name)
            THEN self.supplier = self.seller_name
            ELSE IF truthy(self.seller_tax_id)
                    /\ \E s \in host.suppliers : s.tax_id = self.seller_tax_id
            THEN \E s \in host.suppliers :
                    s.tax_id = self.seller_tax_id /\ self.supplier = s.name
            ELSE self.supplier = None

(***************************************************************************)
(* Claims on the allocation to purchase order lines                        *)
(***************************************************************************)
\* guess_po_details ran for a record with a purchase order
Allocated ==
    /\ vres.op = "before_save"
    /\ ~vres.raised
    /\ truthy(vres.after.purchase_order)

\* the order line of line n when the pass began: a line read from the file
\* in this save has none
Entering(n) == IF vres.passes THEN None ELSE vres.before.items[n].po_detail

\* line n had an order line of the purchase order, which the pass keeps
Kept(n) ==
    /\ truthy(Entering(n))
    /\ po_item_exists(host, Entering(n), vres.after.purchase_order)

\* the amount that the lines before line n took from order line k in this
\* pass
RECURSIVE Taken(_, _)
Taken(k, n) ==
    IF n <= 1 THEN 0
    ELSE Taken(k, n - 1)
         + (IF ~Kept(n - 1)
               /\ vres.after.items[n - 1].po_detail
                  = host.purchase_orders[vres.after.purchase_order][k].name
            THEN vres.after.items[n - 1].total_amount[1]
            ELSE 0)

\* order line k has the item of line n and enough unbilled amount left
Fits(k, n) ==
    LET po_row == host.purchase_orders[vres.after.purchase_order][k]
    IN  /\ po_row.item_code = vres.after.items[n].item
        /\ po_row.amount - po_row.billed_amt - Taken(k, n)
           >= vres.after.items[n].total_amount[1]

\* every line that is not kept has the first order line that fits, or none
FirstFitRule ==
    Allocated =>
        LET po_rows == host.purchase_orders[vres.after.purchase_order]
        IN  \A n \in 1..Len(vres.after.items) :
                IF Kept(n) THEN vres.after.items[n].po_detail = Entering(n)
                ELSE IF \E k \in 1..Len(po_rows) : Fits(k, n)
                THEN \E k \in 1..Len(po_rows) :
                        /\ Fits(k, n)
                        /\ \A j \in 1..(k - 1) : ~Fits(j, n)
                        /\ vres.after.items[n].po_detail = po_rows[k].name
                ELSE vres.after.items[n].po_detail = None

\* an order with one line of X with 100 unbilled, and two unassigned lines
\* of X, the first of 60 and the second of `second`
OrderOfOneLine(second) ==
    /\ Allocated
    /\ Len(host.purchase_orders[vres.after.purchase_order]) = 1
    /\ host.purchase_orders[vres.after.purchase_order][1].item_code = "TABLE-OAK"
    /\ host.purchase_orders[vres.after.purchase_order][1].amount
       - host.purchase_orders[vres.after.purchase_order][1].billed_amt = 100000
    /\ Len(vres.after.items) = 2
    /\ \A n \in 1..2 : vres.after.items[n].item = "TABLE-OAK" /\ ~truthy(Entering(n))
    /\ vres.after.items[1].total_amount = Value(60000)
    /\ vres.after.items[2].total_amount = Value(second)

\* C17 as stated: with 100 unbilled and lines of 60 and 40 the first line is
\* allocated and the second is left unassigned; in general a line gets the
\* first order line with its item and enough remaining unbilled amount.
C17_SecondLineOfFortyFails ==
    /\ OrderOfOneLine(40000) =>
        /\ vres.after.items[1].po_detail = "po-row-1"
        /\ vres.after.items[2].po_detail = None
    /\ FirstFitRule

\* C17: with 100 unbilled and lines of 60 and 40 both lines are allocated to
\* the order line, the second taking the remaining 40; a second line of 60
\* is left unassigned; in general a line that has no order line of the
\* purchase order gets the first order line, in order of appearance, with
\* its item and a remaining unbilled amount of at least its amount, where
\* the lines allocated before it in the pass have reduced the remaining
\* amount, and is left unassigned when there is none.
C17_FirstFitAllocation ==
    /\ OrderOfOneLine(40000) =>
        /\ vres.after.items[1].po_detail = "po-row-1"
        /\ vres.after.items[2].po_detail = "po-row-1"
    /\ OrderOfOneLine(60000) =>
        /\ vres.after.items[1].po_detail = "po-row-1"
        /\ vres.after.items[2].po_detail = None
    /\ FirstFitRule

\* the order line with 100 unbilled took the line of 60 and the line of 40
C17_Witness ==
    /\ OrderOfOneLine(40000)
    /\ vres.after.items[2].po_detail = "po-row-1"

(***************************************************************************)
(* Claims on the round trip                                                *)
(***************************************************************************)
\* an amount of the record is set and differs from `amount` by at most 0.01,
\* which is 10 thousandths
Within(value, amount) ==
    /\ value # NoValue
    /\ value[1] - amount <= 10
    /\ amount - value[1] <= 10

\* the totals of the invoice that _set_totals writes: the Actual rows are
\* charges and count for the tax basis, the other rows are the tax; what is
\* prepaid is the whole of a settled invoice and the advance otherwise
TaxBasisOf(inv) == inv.net_total + sum_tax_amount(inv.taxes, is_actual, 1)
TaxTotalOf(inv) == sum_tax_amount(inv.taxes, is_not_actual, 1)
PrepaidOf(inv) == IF inv.outstanding_amount = 0 THEN inv.grand_total ELSE inv.total_advance

\* the document generated with profile EN16931 was imported
RoundTripDone == pc = "imported" /\ profile = EN16931

\* C18: the import record read from the document generated from an invoice
\* with profile EN16931 has the id and the currency of the invoice, as many
\* lines as the invoice has line items, and a line total, tax-basis total,
\* tax total, grand total, prepaid total and due amount that each differ by
\* at most 0.01 from the total of the invoice.
C18_RoundTrip ==
    RoundTripDone =>
        /\ einv.id = invoice.name
        /\ einv.currency = invoice.currency
        /\ Len(einv.items) = Len(invoice.items)
        /\ Within(einv.line_total, invoice.net_total)
        /\ Within(einv.tax_basis_total, TaxBasisOf(invoice))
        /\ Within(einv.tax_total, TaxTotalOf(invoice))
        /\ Within(einv.grand_total, invoice.grand_total)
        /\ Within(einv.total_prepaid, PrepaidOf(invoice))
        /\ Within(einv.due_payable, invoice.outstanding_amount)

\* an invoice of 100.005 net with a tax row and an advance was generated
\* and imported, and the totals of the record are the rounded ones
C18_Witness ==
    /\ RoundTripDone
    /\ invoice.net_total = 100005
    /\ einv.line_total # Value(100005)
    /\ Len(invoice.taxes) = 2
    /\ TaxTotalOf(invoice) = 9505
    /\ invoice.total_advance = 20004
    /\ invoice.outstanding_amount = 4
    /\ einv.total_prepaid = Value(20000)
    /\ einv.id = "SINV-2026-0003"

(***************************************************************************)
(* Claims on the On Net Total rows                                         *)
(***************************************************************************)
\* the position in doc.trade_tax of the entry emitted for tax row i: the
\* On Net Total and On Previous Row rows are emitted in order
RECURSIVE EmittedIndex(_, _)
EmittedIndex(taxes, i) ==
    IF i = 0 THEN 0
    ELSE EmittedIndex(taxes, i - 1)
         + (IF taxes[i].charge_type \in {"On Net Total"} \cup PreviousRowTypes THEN 1 ELSE 0)

\* the rate of a tax row: its own, or that of its account when it has none
RateOf(tax) ==
    IF tax.rate # 0 THEN tax.rate
    ELSE IF tax.account_head \in DOMAIN site.account_tax_rates
    THEN site.account_tax_rates[tax.account_head]
    ELSE 0

\* basis is amount / rate * 100 rounded to 2 decimals: a multiple of 0.01
\* that is at most half of 0.01 away from the quotient
IsRoundedBasis(basis, amount, rate) ==
    /\ basis % 10 = 0
    /\ 2 * (basis * rate - amount * 100) <= 10 * rate
    /\ 2 * (amount * 100 - basis * rate) <= 10 * rate

\* C19: the basis amount of the entry emitted for an On Net Total row is
\* the net total of the invoice when the row is the only tax row; otherwise
\* the net amount of the row when tax rows have one; otherwise amount /
\* rate * 100 rounded to 2 decimals when the tax amount and the rate of the
\* row are both non-zero; otherwise 0.
C19_NetTotalBasis ==
    Passed("taxes") =>
        \A i \in 1..Len(invoice.taxes) :
            invoice.taxes[i].charge_type = "On Net Total" =>
                LET tax == invoice.taxes[i]
                    basis == doc.trade_tax[EmittedIndex(invoice.taxes, i)].basis_amount
                IN  /\ basis # NoValue
                    /\ IF Len(invoice.taxes) = 1 THEN basis[1] = invoice.net_total
                       ELSE IF site.tax_row_fields = "net_amount"
                       THEN basis[1] = tax.net_amount
                       ELSE IF site.tax_row_fields = "custom_net_amount"
                       THEN basis[1] = tax.custom_net_amount
                       ELSE IF tax.tax_amount # 0 /\ RateOf(tax) # 0
                       THEN IsRoundedBasis(basis[1], tax.tax_amount, RateOf(tax))
                       ELSE basis[1] = 0

\* two On Net Total rows on a site whose tax rows have a net amount, the
\* second row with an amount and a rate: the basis is the net amount and
\* not the quotient
C19_Witness ==
    /\ Passed("taxes")
    /\ Len(invoice.taxes) = 2
    /\ site.tax_row_fields = "net_amount"
    /\ invoice.taxes[2].charge_type = "On Net Total"
    /\ invoice.taxes[2].rate = 7
    /\ invoice.taxes[2].tax_amount = 3500
    /\ Len(doc.trade_tax) = 2
    /\ doc.trade_tax[2].basis_amount = Value(50000)

\* the rates of the lines of the document
LineRates == {doc.items[n].rate_applicable_percent : n \in 1..Len(doc.items)}

\* C20: when the invoice has exactly one tax row, On Net Total, whose rate
\* is 0, and all line items share one tax rate r, the emitted entry has
\* rate r and the net total of the invoice as basis; when the rate of the
\* row is not 0 or the line items do not share one rate, the rate of the
\* row is emitted.
C20_SingleRowSubstitution ==
    (Passed("taxes") /\ Len(invoice.taxes) = 1
        /\ invoice.taxes[1].charge_type = "On Net Total") =>
        LET tax == invoice.taxes[1]
            emitted == doc.trade_tax[1]
        IN  IF RateOf(tax) = 0 /\ Cardinality(LineRates) = 1
            THEN /\ emitted.rate_applicable_percent \in LineRates
                 /\ emitted.basis_amount = Value(invoice.net_total)
            ELSE emitted.rate_applicable_percent = Value(RateOf(tax))

\* the statement of C20 for the invoices none of whose lines has a zero
\* rated category
SubstitutionWithoutZeroRatedLines ==
    (Passed("taxes")
        /\ \A n \in 1..Len(doc.items) : doc.items[n].category_code \notin zero_rated)
        => C20_SingleRowSubstitution

(***************************************************************************)
(* C21: the rows of the previous-row variants                              *)
(***************************************************************************)
\* what a previous-row row takes from the row `from_row`: the tax amount for
\* On Previous Row Amount, the running total for On Previous Row Total
BasisFrom(tax, from_row) ==
    IF tax.charge_type = "On Previous Row Amount"
    THEN Value(from_row.tax_amount) ELSE Value(from_row.total)

TypeCodeFrom(from_row) == IF from_row.charge_type = "Actual" THEN "VAT" ELSE "SUR"

\* the entry emitted for the previous-row row at position i takes basis and
\* type code from the row at position j
TakenFrom(i, j) ==
    LET emitted == doc.trade_tax[EmittedIndex(invoice.taxes, i)]
    IN  /\ emitted.basis_amount = BasisFrom(invoice.taxes[i], invoice.taxes[j])
        /\ emitted.type_code = TypeCodeFrom(invoice.taxes[j])

PreviousRowPositions ==
    {i \in 1..Len(invoice.taxes) : invoice.taxes[i].charge_type \in PreviousRowTypes}

PreviousRowAfterFirst ==
    Passed("taxes") =>
        \A i \in PreviousRowPositions : i > 1 => TakenFrom(i, i - 1)

\* a previous-row row at the first position takes basis and type code from
\* the last row of the sequence
FirstRowTakesLast ==
    Passed("taxes") =>
        \A i \in PreviousRowPositions : i = 1 => TakenFrom(i, Len(invoice.taxes))

(***************************************************************************)
(* C22: Actual rows and the logistics service charges                      *)
(***************************************************************************)
\* the number of Actual rows among the first i tax rows
RECURSIVE ActualIndex(_, _)
ActualIndex(taxes, i) ==
    IF i = 0 THEN 0
    ELSE ActualIndex(taxes, i - 1) + (IF taxes[i].charge_type = "Actual" THEN 1 ELSE 0)

ActualPositions ==
    {i \in 1..Len(invoice.taxes) : invoice.taxes[i].charge_type = "Actual"}

\* the row after the row at position i exists and is of a previous-row variant
FollowedByPreviousRow(i) ==
    i < Len(invoice.taxes) /\ invoice.taxes[i + 1].charge_type \in PreviousRowTypes

C22_WithoutSubLine ==
    /\ pc = "empty_tax"
    /\ profile = EXTENDED
    /\ \E i \in ActualPositions :
        i < Len(invoice.taxes) /\ ~FollowedByPreviousRow(i)
            /\ doc.service_charge[ActualIndex(invoice.taxes, i)].trade_tax = <<>>

\* XRECHNUNG: Actual rows and no service charge
C22_LowerProfileReached ==
    /\ Passed("taxes")
    /\ profile = XRECHNUNG
    /\ ActualPositions # {}
    /\ doc.service_charge = <<>>

(***************************************************************************)
(* C23: the profiles that support the charge type Actual                   *)
(***************************************************************************)
\* validate_doc showed the warning about the charge type Actual for row i
ActualWarningShown(i) ==
    \E k \in 1..Len(vres.msgs) :
        /\ vres.msgs[k].row = i
        /\ vres.msgs[k].text = "The charge type 'Actual' is only supported in the eInvoice profiles 'EXTENDED' and 'XRECHNUNG'."

\* validate_doc ran over the tax rows of an invoice with a profile
FormChecked == vres.op = "validate_doc" /\ vres.doc.einvoice_profile \in Profiles

\* the warning is shown for the Actual rows of BASIC and EN 16931 invoices
\* and of no other invoice
WarningWhereUnsupported ==
    FormChecked =>
        \A i \in 1..Len(vres.doc.taxes) :
            vres.doc.taxes[i].charge_type = "Actual" =>
                (ActualWarningShown(i) <=> vres.doc.einvoice_profile \in {BASIC, EN16931})

\* generation with EXTENDED or XRECHNUNG emits every Actual row as a
\* service charge
ActualEmittedWhereSupported ==
    (Passed("taxes") /\ profile \in {EXTENDED, XRECHNUNG}) =>
        Len(doc.service_charge) = Cardinality(ActualPositions)

\* C23: the charge type Actual is supported in the profiles EXTENDED and
\* XRECHNUNG: for an invoice with either profile validate_doc shows no
\* 'Actual is only supported in ...' warning and generation emits the
\* Actual row as a service charge; for BASIC and EN16931 the warning is
\* shown.
C23_ActualSupported == WarningWhereUnsupported /\ ActualEmittedWhereSupported

\* the warning follows the profile order: it is shown below EXTENDED
WarningBelowExtended ==
    FormChecked =>
        \A i \in 1..Len(vres.doc.taxes) :
            vres.doc.taxes[i].charge_type = "Actual" =>
                (ActualWarningShown(i) <=> lt(vres.doc.einvoice_profile, EXTENDED))

\* an XRECHNUNG invoice with an Actual row was checked and warned about
XRechnungWarned ==
    /\ FormChecked
    /\ vres.doc.einvoice_profile = XRECHNUNG
    /\ Len(vres.doc.taxes) > 0
    /\ ActualWarningShown(1)

\* ---------------------------------------------------------------------------
\* C24  early-payment discounts of the payment schedule
\* ---------------------------------------------------------------------------
HasDiscount(ps) == ps.discount # 0 /\ ps.discount_date # NoValue

\* the free text of the row as the profile emits it without a token
OwnText(p, ps) ==
    LET own == IF truthy(ps.description) THEN ps.description ELSE ""
    IN  IF p = XRECHNUNG /\ HasDiscount(ps) /\ own = "Order #12" THEN "Order //12" ELSE own

\* the codified token of the row, spelled out
SkontoToken(ps) ==
    "#SKONTO#TAGE=" \o ToString(calendar_date_diff(ps.discount_date, invoice.posting_date))
    \o "#PROZENT=" \o format_2f(ps.discount) \o "#"

BasisToken(ps) == "BASISBETRAG=" \o format_2f(ps.payment_amount) \o "#"

DiffersAtTwoDecimals(x, y) == (x - y >= 5) \/ (y - x >= 5)

TokenTexts(p, ps) ==
    LET head == IF OwnText(p, ps) # "" THEN OwnText(p, ps) \o "\n" ELSE ""
    IN  {head \o SkontoToken(ps) \o "\n"}
        \cup (IF DiffersAtTwoDecimals(ps.payment_amount, invoice.outstanding_amount)
              THEN {head \o SkontoToken(ps) \o BasisToken(ps) \o "\n"} ELSE {})

DiscountEncoded(i) ==
    LET ps == invoice.payment_schedule[i]
        term == doc.terms[i]
        plain == IF OwnText(profile, ps) # "" THEN OwnText(profile, ps) ELSE None
    IN  /\ IF profile = EXTENDED
           THEN /\ term.discount_terms.basis_date_time = ps.discount_date
                /\ term.discount_terms.basis_amount = Value(ps.payment_amount)
                /\ term.discount_terms.calculation_percent =
                       (IF ps.discount_type = "Percentage" THEN Value(ps.discount) ELSE NoValue)
                /\ term.discount_terms.actual_amount =
                       (IF ps.discount_type = "Amount" THEN Value(ps.discount) ELSE NoValue)
           ELSE term.discount_terms = NoDiscountTerms
        /\ IF profile = XRECHNUNG /\ ps.discount_type = "Percentage"
              /\ ps.discount_date[1] < invoice.posting_date[1]
           THEN term.description \in TokenTexts(profile, ps)
           ELSE term.description = plain

\* C24: a schedule row with a discount and a discount date is emitted with
\* structured discount terms for EXTENDED; for XRECHNUNG and a percentage
\* discount its free text ends with the token #SKONTO#TAGE=..#PROZENT=..#
\* exactly when the discount date lies before the posting date, and the token
\* holds BASISBETRAG only when the row amount differs at two decimals from the
\* outstanding amount; BASIC and EN 16931 emit no discount information.
C24_DiscountEncoding ==
    Passed("payment") /\ pc # "imported" =>
        /\ Len(doc.terms) = Len(invoice.payment_schedule)
        /\ \A i \in 1..Len(invoice.payment_schedule) :
              HasDiscount(invoice.payment_schedule[i]) => DiscountEncoded(i)

\* an XRECHNUNG invoice whose row carries the token with its basis amount, next
\* to a row whose discount date lies after the posting date
C24_Witness ==
    /\ pc = "done"
    /\ profile = XRECHNUNG
    /\ Len(invoice.payment_schedule) = 2
    /\ LET ps == invoice.payment_schedule[1]
           other == invoice.payment_schedule[2]
       IN  /\ HasDiscount(ps) /\ ps.discount_type = "Percentage"
           /\ ps.discount_date[1] < invoice.posting_date[1]
           /\ doc.terms[1].description = "Order //12\n#SKONTO#TAGE=-5#PROZENT=2.00#BASISBETRAG=30.00#\n"
           /\ HasDiscount(other) /\ other.discount_date[1] > invoice.posting_date[1]
           /\ doc.terms[2].description = "Order //12"

\* an EXTENDED invoice with structured discount terms
C24_ExtendedReached ==
    /\ pc = "done"
    /\ profile = EXTENDED
    /\ \E i \in 1..Len(invoice.payment_schedule) :
          /\ HasDiscount(invoice.payment_schedule[i])
          /\ doc.terms[i].discount_terms.actual_amount = Value(5000)

\* ---------------------------------------------------------------------------
\* C25  bank details of the payment means
\* ---------------------------------------------------------------------------
\* the bank details of the first schedule row, from row i on, whose mode of
\* payment has an IBAN
RECURSIVE FirstResolvable(_)
FirstResolvable(i) ==
    IF i > Len(invoice.payment_schedule) THEN <<None, None>>
    ELSE LET mode == invoice.payment_schedule[i].mode_of_payment
             details == IF truthy(mode) THEN get_bank_details(site, mode, invoice.company)
                        ELSE <<None, None>>
         IN  IF truthy(details[1]) THEN details ELSE FirstResolvable(i + 1)

\* account name and BIC are emitted for EN 16931 and the profiles above it only
AccountNameAndBicGate ==
    Passed("payment") /\ pc # "imported" =>
        LET means == doc.payment_means
        IN  IF ge(profile, EN16931) /\ truthy(means.payee_account.iban)
            THEN /\ means.payee_account.account_name = invoice.company
                 /\ \E acc \in site.bank_accounts :
                       /\ acc.iban = means.payee_account.iban
                       /\ means.payee_institution.bic =
                              (IF truthy(acc.bank) THEN site.banks[acc.bank] ELSE None)
            ELSE /\ means.payee_account.account_name = None
                 /\ means.payee_institution.bic = None

\* C25: the emitted IBAN is that of the first mode of payment, in the order
\* of the payment schedule rows, that has resolvable bank details; account
\* name and BIC are emitted for profile >= EN 16931 only; so two generations
\* of one invoice emit the same bank details.
C25_FirstModeInRowOrder ==
    Passed("payment") /\ pc # "imported" =>
        /\ doc.payment_means.payee_account.iban = FirstResolvable(1)[1]
        /\ AccountNameAndBicGate

\* two rows with resolvable modes of payment, and the bank details of the first
C25_TwoResolvableModes ==
    /\ pc = "done"
    /\ profile = EN16931
    /\ Len(invoice.payment_schedule) = 2
    /\ invoice.payment_schedule[1].mode_of_payment = "SEPA"
    /\ invoice.payment_schedule[2].mode_of_payment = "Wire Transfer"
    /\ doc.payment_means.payee_account.iban = "DE02500105170137075030"

\* the same invoice, emitted with the bank details of the second row
C25_SecondRowEmitted ==
    /\ pc = "done"
    /\ profile = EN16931
    /\ Len(invoice.payment_schedule) = 2
    /\ invoice.payment_schedule[1].mode_of_payment = "SEPA"
    /\ invoice.payment_schedule[2].mode_of_payment = "Wire Transfer"
    /\ doc.payment_means.payee_account.iban = "DE02120300000000202051"
    /\ doc.payment_means.payee_institution.bic = "BYLADEM1001"

(***************************************************************************)
(* Claims on the product names of the lines                                *)
(***************************************************************************)
\* line n of the document of the file saved last
TreeLine(n) == host.files[vres.after.einvoice].tree.items[n]

\* a name of at most 140 characters and its description are stored unchanged
ShortNamesUnchanged ==
    Imported =>
        \A n \in 1..Len(vres.after.items) :
            TreeLine(n).name # LongName =>
                /\ vres.after.items[n].product_name = TreeLine(n).name
                /\ vres.after.items[n].product_description = TreeLine(n).description

\* C26 as stated: a name of more than 140 characters is stored cut to its
\* first 140 characters and the characters after the first 140 are put in
\* front of the description, separated from it by " | "; a shorter name and
\* its description are stored unchanged.
C26_RemainderFolded ==
    /\ ShortNamesUnchanged
    /\ Imported =>
        \A n \in 1..Len(vres.after.items) :
            TreeLine(n).name = LongName =>
                /\ vres.after.items[n].product_name = LongNameCut
                /\ vres.after.items[n].product_description =
                       LongNameRest \o " | " \o TreeLine(n).description

\* C26: a name of more than 140 characters is stored cut to its first 140
\* characters and the whole name, the first 140 characters included, is put
\* in front of the description, separated from it by " | "; a shorter name
\* and its description are stored unchanged.
C26_WholeNameFolded ==
    /\ ShortNamesUnchanged
    /\ Imported =>
        \A n \in 1..Len(vres.after.items) :
            TreeLine(n).name = LongName =>
                /\ vres.after.items[n].product_name = LongNameCut
                /\ vres.after.items[n].product_description =
                       LongNameCut \o LongNameRest \o " | " \o TreeLine(n).description

\* a file with a line of a long name was read
C26_Witness ==
    /\ Imported
    /\ TreeLine(1).name = LongName
    /\ TreeLine(1).description = "Solid oak"
    /\ vres.after.items[1].product_name = LongNameCut
    /\ vres.after.items[1].product_description # "Solid oak"

(***************************************************************************)
(* Claims on repeated saves against one purchase order                     *)
(***************************************************************************)
\* the sum of the total amounts of the lines from n on that point to the
\* order line `name`
RECURSIVE AllocatedTo(_, _, _)
AllocatedTo(items, name, n) ==
    IF n > Len(items) THEN 0
    ELSE (IF items[n].po_detail = name THEN items[n].total_amount[1] ELSE 0)
         + AllocatedTo(items, name, n + 1)

\* no order line of the purchase order of the record holds more than its
\* unbilled amount
WithinUnbilled(self) ==
    truthy(self.purchase_order) =>
        \A k \in 1..Len(host.purchase_orders[self.purchase_order]) :
            LET po_row == host.purchase_orders[self.purchase_order][k]
            IN  AllocatedTo(self.items, po_row.name, 1) <= po_row.amount - po_row.billed_amt

\* the record is as the last save left it, and that save started with no
\* line allocated
SavedFromNoAllocation ==
    /\ vres.op = "before_save"
    /\ ~vres.raised
    /\ einv = vres.after
    /\ \A n \in 1..Len(vres.before.items) : vres.before.items[n].po_detail = None

\* the step is a save of the record as it is
SavedAgain == vres'.op = "before_save" /\ vres'.before = einv

\* one save from no allocation stays within the unbilled amounts
FirstSaveWithinUnbilled == SavedFromNoAllocation => WithinUnbilled(einv)

\* C27: over consecutive saves of a record against one unchanged purchase
\* order, starting with no line allocated, the total amounts of the lines
\* allocated to an order line never exceed its unbilled amount: the save
\* that follows a save from no allocation leaves every order line within it.
C27_NeverOverAllocated ==
    [][(SavedFromNoAllocation /\ SavedAgain) => WithinUnbilled(einv')]_vars

\* two saves in a row put two lines of 60 on an order line with 100 unbilled
C27_OverAllocated ==
    /\ vres.op = "before_save"
    /\ ~vres.raised
    /\ einv = vres.after
    /\ Len(vres.before.items) = 2
    /\ vres.before.items[1].po_detail = "po-row-1"
    /\ vres.before.items[2].po_detail = None
    /\ WithinUnbilled(vres.before)
    /\ einv.items[2].po_detail = "po-row-1"
    /\ ~WithinUnbilled(einv)

(***************************************************************************)
(* Claims on a record whose file changes                                   *)
(***************************************************************************)
\* a save of the record went through and it holds a file
SavedWithFile ==
    /\ vres.op = "before_save"
    /\ ~vres.raised
    /\ truthy(vres.after.einvoice)

\* the rule set of the profile of the file the record holds was evaluated
\* to the end and reported no error
CurrentFileValidatedClean ==
    LET p == get_profile(host.files[vres.after.einvoice].tree.context.guideline_parameter)
    IN  /\ p # None
        /\ ~engine[PROFILE_TO_XSL[p]].raises
        /\ ErrorsOf(p) = <<>>

\* C28: after saves in which the file of an import record changes,
\* e_invoice_is_correct is 1 only if the validation of the file the record
\* holds now ran to its end and reported no error; a failure of the engine
\* on the new file leaves no 1 of an earlier file.
C28_CorrectOnlyIfValidated ==
    (SavedWithFile /\ vres.after.e_invoice_is_correct = 1) => CurrentFileValidatedClean

\* the engine raised on the file that replaced a file found correct, and the
\* record still says 1
C28_CarriedOver ==
    /\ SavedWithFile
    /\ vres.passes
    /\ vres.before.e_invoice_is_correct = 1
    /\ vres.before.stored_einvoice = "/private/files/first.xml"
    /\ vres.after.einvoice = "/private/files/invoice.xml"
    /\ engine[PROFILE_TO_XSL[vres.after.profile]].raises
    /\ vres.after.e_invoice_is_correct = 1

\* without a failure of the engine the value is that of the file the record
\* holds
CorrectWhenEngineRuns ==
    (SavedWithFile /\ vres.passes /\ ~engine[PROFILE_TO_XSL[vres.after.profile]].raises) =>
        (vres.after.e_invoice_is_correct = 1 <=> ErrorsOf(vres.after.profile) = <<>>)

\* the columns of a line that parse_line_item reads from the document
ParsedLine(row) ==
    [product_name |-> row.product_name, product_description |-> row.product_description,
     seller_product_id |-> row.seller_product_id, billed_quantity |-> row.billed_quantity,
     unit_code |-> row.unit_code, net_rate |-> row.net_rate, tax_rate |-> row.tax_rate,
     total_amount |-> row.total_amount]

ParsedLines(self) == [n \in 1..Len(self.items) |-> ParsedLine(self.items[n])]

\* the record that a new record becomes when it reads the file of the
\* record saved last
ReadByNewRecord ==
    read_values_from_einvoice([NewImport EXCEPT !.einvoice = vres.after.einvoice],
                              host, engine).doc

\* the rows of the record are those of its file alone
RowsFromCurrentFile ==
    Imported =>
        /\ ParsedLines(vres.after) = ParsedLines(ReadByNewRecord)
        /\ vres.after.taxes = ReadByNewRecord.taxes
        /\ vres.after.payment_terms = ReadByNewRecord.payment_terms

\* C29: the parsed fields of an import record depend on the file it holds
\* only: a record filled from another file before and a new record that read
\* the same file hold the same due date, payee account name, payee BIC, tax
\* total, lines, tax rows and payment term rows.
C29_ParsedFromCurrentFile ==
    /\ RowsFromCurrentFile
    /\ Imported =>
        /\ vres.after.due_date = ReadByNewRecord.due_date
        /\ vres.after.payee_account_name = ReadByNewRecord.payee_account_name
        /\ vres.after.payee_bic = ReadByNewRecord.payee_bic
        /\ vres.after.tax_total = ReadByNewRecord.tax_total

\* a record filled from first.xml read invoice.xml
C29_Reparsed ==
    /\ Imported
    /\ vres.before.stored_einvoice = "/private/files/first.xml"
    /\ vres.before.id = "RE-2026-16"
    /\ vres.after.einvoice = "/private/files/invoice.xml"
    /\ vres.after.id = "RE-2026-17"
    /\ vres.after.items[1].product_name = "Oak table"

(***************************************************************************)
(* Claims on the charge total                                              *)
(***************************************************************************)
\* the sum of the applied amounts of the service charges from position n on
RECURSIVE AppliedAmounts(_, _)
AppliedAmounts(charges, n) ==
    IF n > Len(charges) THEN 0
    ELSE charges[n].applied_amount[1] + AppliedAmounts(charges, n + 1)

\* the charge total and the tax basis total match the service charges of the
\* document
TotalsMatchCharges ==
    LET sums == doc.monetary_summation
        charges == AppliedAmounts(doc.service_charge, 1)
    IN  /\ IF doc.service_charge = <<>> THEN sums.charge_total = NoValue
           ELSE /\ sums.charge_total # NoValue
                /\ RoundedTo2(sums.charge_total[1], charges)
        /\ Within(sums.tax_basis_total, sums.line_total[1] + charges)

\* C30: for every invoice and profile the charge total of the monetary
\* summation is the sum, rounded to two decimals, of the applied amounts of
\* the service charges of the same document, no charge total is emitted
\* when no service charge is, and the tax basis total is the line total
\* plus the service charges.
C30_ChargeTotalOfEmittedCharges ==
    Passed("totals") => TotalsMatchCharges

\* the totals match for the profile that emits service charges, unless the
\* charges add up to nothing: then no charge total is emitted
ExtendedTotalsMatchCharges ==
    (Passed("totals") /\ profile = EXTENDED) =>
        IF AppliedAmounts(doc.service_charge, 1) # 0 THEN TotalsMatchCharges
        ELSE doc.monetary_summation.charge_total = NoValue

\* a document below EXTENDED with a charge total and no service charge
C30_ChargeTotalWithoutCharge ==
    /\ pc = "done"
    /\ profile = EN16931
    /\ doc.service_charge = <<>>
    /\ doc.monetary_summation.charge_total # NoValue
    /\ doc.monetary_summation.tax_basis_total[1] > doc.monetary_summation.line_total[1]

====
